---------------------------- MODULE Spec2Model ----------------------------
(***************************************************************************)
(* A model of envkey-fetch: the web of trust (trust/trust.go), the payload *)
(* parser (parser/parser.go) and the fetch pipeline (fetch/fetch.go).      *)
(*                                                                         *)
(* The OpenPGP adapter (package crypto) and the disk cache (package cache) *)
(* are not part of the sources at hand; they are modelled from their       *)
(* description in the specification and marked as such in the model map.   *)
(*                                                                         *)
(* Three specifications share the module:                                  *)
(*   SpecTrust  VerifySignerTrusted on bounded trust maps, one loop        *)
(*              iteration of TrustedRoot per step;                         *)
(*   SpecParse  EnvServiceResponse.Parse, one call of the code per step;   *)
(*   SpecFetch  Fetch / getJson / fetchBackup with the cache.              *)
(***************************************************************************)
EXTENDS Integers, Sequences, FiniteSets, TLC

VARIABLES
    trust,      \* the run of VerifySignerTrusted (SpecTrust)
    parse,      \* the run of Parse (SpecParse)
    fetch       \* the run of Fetch (SpecFetch)

vars == <<trust, parse, fetch>>

(***************************************************************************)
(* Bounds of the model.                                                    *)
(***************************************************************************)
\* Fingerprints 1..NumUserKeys are primary keys of users and devices.
NumUserKeys == 2

\* The fingerprint of the one invite key of the model.
InviteFp == NumUserKeys + 1

UserFps == 1..NumUserKeys

(***************************************************************************)
(* OpenPGP adapter (package crypto), modelled from the specification.      *)
(* Every armored text is a record whose field `armor` is "" for the empty  *)
(* string and "text" otherwise.  An armored public key carries its         *)
(* primary-key fingerprint and the fingerprint of the key whose signature  *)
(* it bears (0: none).  Fingerprint 0 is an armor that does not parse: the *)
(* empty string (NoKey) or any other text that is no key (BadKey).         *)
(***************************************************************************)
Key(fp, by) == [armor |-> "text", fp |-> fp, by |-> by]

NoKey == [armor |-> "", fp |-> 0, by |-> 0]

BadKey == Key(0, 0)

\* crypto.ReadArmoredKey: the key ring, or an error.
ReadArmoredKeyOk(armored) == armored.fp # 0

\* crypto.VerifyPubkeyArmoredSignature(signed, signer): nil iff both armors
\* parse and `signed` bears a signature issued by `signer`.
VerifyPubkeyArmoredSignature(signedArmored, signerArmored) ==
    /\ ReadArmoredKeyOk(signedArmored)
    /\ ReadArmoredKeyOk(signerArmored)
    /\ signedArmored.by = signerArmored.fp


(***************************************************************************)
(* trust/trust.go                                                          *)
(*                                                                         *)
(* Identifiers are strings, "" being the empty identifier.  A              *)
(* TrustedKeyablesMap is the record of its nil flag and of its entries (a  *)
(* function from the identifiers it holds): Go tells a nil map from an     *)
(* empty one, and a lookup in a nil map finds nothing.                     *)
(***************************************************************************)
TrustedKeyable(pubkey, invitePubkey, invitedById) ==
    [PubkeyArmored |-> pubkey,
     InvitePubkeyArmored |-> invitePubkey,
     InvitedById |-> invitedById]

NoKeyable == TrustedKeyable(NoKey, NoKey, "")

\* The struct Signer.
Signer(id, pubkeyArmored, isInheritanceSigner) ==
    [Id |-> id, PubkeyArmored |-> pubkeyArmored, Pubkey |-> pubkeyArmored,
     IsInheritanceSigner |-> isInheritanceSigner]

\* A nil *Signer.
NilSigner == [nil |-> TRUE]

\* NewSigner: (nil, err) when the armor does not parse.
NewSigner(id, pubkeyArmored, isInheritanceSigner) ==
    IF ~ReadArmoredKeyOk(pubkeyArmored)
    THEN [signer |-> NilSigner, ok |-> FALSE]
    ELSE [signer |-> Signer(id, pubkeyArmored, isInheritanceSigner),
          ok |-> TRUE]

NilMap == [nil |-> TRUE, m |-> <<>>]

MakeMap(entries) == [nil |-> FALSE, m |-> entries]

\* v, ok := trustedKeyables[id]
MapHas(trustedKeyables, id) ==
    ~trustedKeyables.nil /\ id \in DOMAIN trustedKeyables.m

MapGet(trustedKeyables, id) ==
    IF MapHas(trustedKeyables, id) THEN trustedKeyables.m[id] ELSE NoKeyable

\* A variant of VerifyInviter: the second check (pubkey signed by the invite
\* key) is dropped.
VerifyInviterNoSelfCheck(keyable, inviterKeyable) ==
    IF ~VerifyPubkeyArmoredSignature(keyable.InvitePubkeyArmored,
                                     inviterKeyable.PubkeyArmored)
    THEN "invite pubkey not signed by inviter"
    ELSE ""

\* A variant of VerifyInviter: the first check (invite key signed by the
\* inviter's pubkey) is dropped.
VerifyInviterNoInviterCheck(keyable, inviterKeyable) ==
    IF ~VerifyPubkeyArmoredSignature(keyable.PubkeyArmored,
                                     keyable.InvitePubkeyArmored)
    THEN "pubkey not signed by invite pubkey"
    ELSE ""

\* TrustedKeyable.VerifyInviter: "" (nil) or the error of the first check
\* that fails.
VerifyInviter(keyable, inviterKeyable) ==
    IF ~VerifyPubkeyArmoredSignature(keyable.InvitePubkeyArmored,
                                     inviterKeyable.PubkeyArmored)
    THEN "invite pubkey not signed by inviter"
    ELSE IF ~VerifyPubkeyArmoredSignature(keyable.PubkeyArmored,
                                          keyable.InvitePubkeyArmored)
    THEN "pubkey not signed by invite pubkey"
    ELSE ""

\* A variant of TrustedKeyablesMap.SignerTrustedKeyable: an entry of another
\* fingerprint counts as no entry.
MapSignerTrustedKeyableLenient(trustedKeyables, signer) ==
    IF MapHas(trustedKeyables, signer.Id)
    THEN LET trusted == trustedKeyables.m[signer.Id] IN
         IF ~ReadArmoredKeyOk(trusted.PubkeyArmored)
         THEN [has |-> FALSE, keyable |-> NoKeyable,
               err |-> "armor: trusted pubkey unreadable"]
         ELSE IF trusted.PubkeyArmored.fp = signer.Pubkey.fp
         THEN [has |-> TRUE, keyable |-> trusted, err |-> ""]
         ELSE [has |-> FALSE, keyable |-> NoKeyable, err |-> ""]
    ELSE [has |-> FALSE, keyable |-> NoKeyable, err |-> ""]

\* TrustedKeyablesMap.SignerTrustedKeyable: (trusted, err); has = FALSE is
\* the nil pointer.
MapSignerTrustedKeyable(trustedKeyables, signer) ==
    IF MapHas(trustedKeyables, signer.Id)
    THEN LET trusted == trustedKeyables.m[signer.Id] IN
         IF ~ReadArmoredKeyOk(trusted.PubkeyArmored)
         THEN [has |-> FALSE, keyable |-> NoKeyable,
               err |-> "armor: trusted pubkey unreadable"]
         ELSE IF trusted.PubkeyArmored.fp = signer.Pubkey.fp
         THEN [has |-> TRUE, keyable |-> trusted, err |-> ""]
         ELSE [has |-> FALSE, keyable |-> NoKeyable,
               err |-> "Signer pubkey fingerprint does not match trusted pubkey fingerprint."]
    ELSE [has |-> FALSE, keyable |-> NoKeyable, err |-> ""]

\* A variant of one iteration of TrustedRoot: the test of the checked map
\* ("Already checked signing id") is dropped.
TrustedRootIterUnchecked(trustedKeyables, creatorTrusted, st) ==
    LET cur == st.currentKeyable
        id == cur.InvitedById
        isRoot == MapHas(creatorTrusted, id)
        inviterKeyable == IF isRoot THEN creatorTrusted.m[id]
                          ELSE MapGet(trustedKeyables, id)
        verr == VerifyInviter(cur, inviterKeyable)
        fail(e) == [st EXCEPT !.err = e, !.iterations = @ + 1]
    IN  IF id = "" THEN fail("No signing id.")
        ELSE IF ~isRoot /\ ~MapHas(trustedKeyables, id)
        THEN fail("No trusted root.")
        ELSE IF verr # "" THEN fail(verr)
        ELSE [currentKeyable |-> IF isRoot THEN cur ELSE inviterKeyable,
              checked |-> st.checked \cup {id},
              newlyVerified |-> Append(st.newlyVerified, cur),
              rooted |-> isRoot,
              err |-> "",
              iterations |-> st.iterations + 1]

\* A variant of one iteration of TrustedRoot: an id that was already checked
\* ends the walk as a root would.
TrustedRootIterCycleRooted(trustedKeyables, creatorTrusted, st) ==
    LET cur == st.currentKeyable
        id == cur.InvitedById
        isRoot == MapHas(creatorTrusted, id)
        inviterKeyable == IF isRoot THEN creatorTrusted.m[id]
                          ELSE MapGet(trustedKeyables, id)
        verr == VerifyInviter(cur, inviterKeyable)
        fail(e) == [st EXCEPT !.err = e, !.iterations = @ + 1]
    IN  IF id = "" THEN fail("No signing id.")
        ELSE IF id \in st.checked
        THEN [st EXCEPT !.rooted = TRUE, !.iterations = @ + 1]
        ELSE IF ~isRoot /\ ~MapHas(trustedKeyables, id)
        THEN fail("No trusted root.")
        ELSE IF verr # "" THEN fail(verr)
        ELSE [currentKeyable |-> IF isRoot THEN cur ELSE inviterKeyable,
              checked |-> st.checked \cup {id},
              newlyVerified |-> Append(st.newlyVerified, cur),
              rooted |-> isRoot,
              err |-> "",
              iterations |-> st.iterations + 1]

\* The locals of TrustedRoot when its loop is entered.
TrustedRootEnter(keyable) ==
    [currentKeyable |-> keyable, checked |-> {}, newlyVerified |-> <<>>,
     rooted |-> FALSE, err |-> "", iterations |-> 0]

TrustedRootRunning(st) == ~st.rooted /\ st.err = ""

\* One iteration of the loop of TrustedKeyablesMap.TrustedRoot
\* (for trustedRoot == nil { ... }).
TrustedRootIter(trustedKeyables, creatorTrusted, st) ==
    LET cur == st.currentKeyable
        id == cur.InvitedById
        isRoot == MapHas(creatorTrusted, id)
        inviterKeyable == IF isRoot THEN creatorTrusted.m[id]
                          ELSE MapGet(trustedKeyables, id)
        verr == VerifyInviter(cur, inviterKeyable)
        fail(e) == [st EXCEPT !.err = e, !.iterations = @ + 1]
    IN  IF id = "" THEN fail("No signing id.")
        ELSE IF id \in st.checked THEN fail("Already checked signing id")
        ELSE IF ~isRoot /\ ~MapHas(trustedKeyables, id)
        THEN fail("No trusted root.")
        ELSE IF verr # "" THEN fail(verr)
        ELSE [currentKeyable |-> IF isRoot THEN cur ELSE inviterKeyable,
              checked |-> st.checked \cup {id},
              newlyVerified |-> Append(st.newlyVerified, cur),
              rooted |-> isRoot,
              err |-> "",
              iterations |-> st.iterations + 1]

RECURSIVE TrustedRootLoop(_, _, _)
TrustedRootLoop(trustedKeyables, creatorTrusted, st) ==
    IF TrustedRootRunning(st)
    THEN TrustedRootLoop(trustedKeyables, creatorTrusted,
                         TrustedRootIter(trustedKeyables, creatorTrusted, st))
    ELSE st

\* TrustedKeyablesMap.TrustedRoot: (newlyVerified, err).
TrustedRoot(trustedKeyables, keyable, creatorTrusted) ==
    LET st == TrustedRootLoop(trustedKeyables, creatorTrusted,
                              TrustedRootEnter(keyable))
    IN  [newlyVerified |-> IF st.err = "" THEN st.newlyVerified ELSE <<>>,
         err |-> st.err]

TrustedKeyablesChain(creatorTrusted, signerTrusted, inheritanceTrusted) ==
    [CreatorTrusted |-> creatorTrusted,
     SignerTrusted |-> signerTrusted,
     InheritanceOverridesSignerTrusted |-> inheritanceTrusted]

ChainResult(has, keyable, newlyVerified, err) ==
    [has |-> has, keyable |-> keyable, newlyVerified |-> newlyVerified,
     err |-> err]

\* A variant of SignerPool: a signer that its own pool does not hold is
\* looked up in the pool of the other tag.
SignerPoolAnyTag(chain, signer) ==
    LET own == IF signer.IsInheritanceSigner
               THEN chain.InheritanceOverridesSignerTrusted
               ELSE chain.SignerTrusted
        other == IF signer.IsInheritanceSigner
                 THEN chain.SignerTrusted
                 ELSE chain.InheritanceOverridesSignerTrusted
    IN  IF MapHas(own, signer.Id) THEN own ELSE other

\* The pool TrustedKeyablesChain.SignerTrustedKeyable looks the signer up in
\* when it is not in CreatorTrusted.
SignerPool(chain, signer) ==
    IF signer.IsInheritanceSigner
    THEN chain.InheritanceOverridesSignerTrusted
    ELSE chain.SignerTrusted

\* TrustedKeyablesChain.SignerTrustedKeyable up to its call of TrustedRoot:
\* either it has returned (returned = TRUE, with the result), or the walk
\* starts from `keyable` in the signer's pool.
ChainLookup(chain, signer) ==
    LET direct == MapSignerTrustedKeyable(chain.CreatorTrusted, signer)
        pool == SignerPool(chain, signer)
        inPool == MapSignerTrustedKeyable(pool, signer)
        notTrusted == IF signer.IsInheritanceSigner
                      THEN "Inheritance overrides signer not trusted."
                      ELSE "Signer not trusted."
        return(r) == [returned |-> TRUE, result |-> r, keyable |-> NoKeyable]
    IN  IF direct.err # ""
        THEN return(ChainResult(FALSE, NoKeyable, <<>>, direct.err))
        ELSE IF direct.has
        THEN return(ChainResult(TRUE, direct.keyable, <<>>, ""))
        ELSE IF signer.IsInheritanceSigner /\ pool.nil
        THEN return(ChainResult(FALSE, NoKeyable, <<>>, notTrusted))
        ELSE IF inPool.err # ""
        THEN return(ChainResult(FALSE, NoKeyable, <<>>, inPool.err))
        ELSE IF ~inPool.has
        THEN return(ChainResult(FALSE, NoKeyable, <<>>, notTrusted))
        ELSE [returned |-> FALSE,
              result |-> ChainResult(FALSE, NoKeyable, <<>>, ""),
              keyable |-> inPool.keyable]

\* What TrustedKeyablesChain.SignerTrustedKeyable returns once TrustedRoot
\* has returned (newlyVerified, err) for the walk from `trusted`.
ChainAfterRoot(trusted, root) ==
    IF root.err # ""
    THEN ChainResult(FALSE, NoKeyable, <<>>, root.err)
    ELSE ChainResult(TRUE, trusted, root.newlyVerified, "")

\* TrustedKeyablesChain.SignerTrustedKeyable: (trusted, newlyVerified, err).
ChainSignerTrustedKeyable(chain, signer) ==
    LET look == ChainLookup(chain, signer) IN
    IF look.returned THEN look.result
    ELSE ChainAfterRoot(look.keyable,
                        TrustedRoot(SignerPool(chain, signer), look.keyable,
                                    chain.CreatorTrusted))

\* TrustedKeyablesChain.VerifySignerTrusted: the error, "" for nil.
VerifySignerTrusted(chain, signer) ==
    ChainSignerTrustedKeyable(chain, signer).err


(***************************************************************************)
(* SpecTrust: VerifySignerTrusted on every signer and chain of the bounded *)
(* input sets below, one iteration of TrustedRoot's loop per step.         *)
(***************************************************************************)
SignerId == "a"

PoolIds == {"a", "b"}

CreatorIds == {"a", "b", "c"}

InvitedByIds == {""} \cup CreatorIds

InviteKeys == {NoKey} \cup {Key(InviteFp, by) : by \in UserFps}

\* Entries of a signer-trusted or overrides-trusted map.
PoolEntries ==
    {TrustedKeyable(Key(fp, by), inv, id) :
        fp \in UserFps, by \in {0, InviteFp}, inv \in InviteKeys,
        id \in InvitedByIds}

\* Entries of the creator-trusted map: roots, which carry no invitation.
CreatorEntries == {TrustedKeyable(Key(fp, 0), NoKey, "") : fp \in UserFps}

MapsOver(ids, entries) ==
    {MakeMap(f) : f \in UNION {[D -> entries] : D \in SUBSET ids}}

\* The pool of the other tag: absent, or one that holds a chain for the
\* signer which verifies against a root "c" of fingerprint 1, and an inviter
\* "b" of fingerprint 2 with such a chain.
DecoyPool ==
    MakeMap([id \in {SignerId, "b"} |->
                TrustedKeyable(Key(IF id = SignerId THEN 1 ELSE 2, InviteFp),
                               Key(InviteFp, 1), "c")])

OtherPools == {NilMap, DecoyPool}

TrustIdle ==
    [pc |-> "idle",
     signer |-> Signer("", NoKey, FALSE),
     chain |-> TrustedKeyablesChain(NilMap, NilMap, NilMap),
     trusted |-> NoKeyable,
     st |-> TrustedRootEnter(NoKeyable),
     result |-> ChainResult(FALSE, NoKeyable, <<>>, "")]

TrustStart(signer, chain) ==
    [TrustIdle EXCEPT !.pc = "start", !.signer = signer, !.chain = chain]

\* The signers and chains VerifySignerTrusted is run on.
TrustInput(t) ==
    \E fp \in UserFps, tag \in BOOLEAN,
       creator \in MapsOver(CreatorIds, CreatorEntries),
       pool \in MapsOver(PoolIds, PoolEntries) \cup {NilMap},
       other \in OtherPools :
        LET made == NewSigner(SignerId, Key(fp, 0), tag) IN
        /\ made.ok
        /\ t = TrustStart(made.signer,
                          IF tag THEN TrustedKeyablesChain(creator, other, pool)
                                 ELSE TrustedKeyablesChain(creator, pool, other))

\* VerifySignerTrusted is entered: the lookups of
\* TrustedKeyablesChain.SignerTrustedKeyable, up to its call of TrustedRoot.
TrustLookup ==
    /\ trust.pc = "start"
    /\ LET look == ChainLookup(trust.chain, trust.signer) IN
       trust' = IF look.returned
                THEN [trust EXCEPT !.pc = "done", !.result = look.result]
                ELSE [trust EXCEPT !.pc = "walk", !.trusted = look.keyable,
                                   !.st = TrustedRootEnter(look.keyable)]
    /\ UNCHANGED <<parse, fetch>>

\* One iteration of the loop of TrustedRoot.
TrustWalk ==
    /\ trust.pc = "walk"
    /\ TrustedRootRunning(trust.st)
    /\ trust' = [trust EXCEPT
                    !.st = TrustedRootIter(SignerPool(trust.chain, trust.signer),
                                           trust.chain.CreatorTrusted, @)]
    /\ UNCHANGED <<parse, fetch>>

\* The loop has ended: TrustedRoot and SignerTrustedKeyable return.
TrustReturn ==
    /\ trust.pc = "walk"
    /\ ~TrustedRootRunning(trust.st)
    /\ trust' = [trust EXCEPT
                    !.pc = "done",
                    !.result = ChainAfterRoot(trust.trusted,
                                 [newlyVerified |-> trust.st.newlyVerified,
                                  err |-> trust.st.err])]
    /\ UNCHANGED <<parse, fetch>>


(***************************************************************************)
(* OpenPGP adapter, continued (package crypto, modelled from the           *)
(* specification): private keys, key rings, signed documents, messages.    *)
(***************************************************************************)
\* The fingerprint of the credential's own key pair (the creator key).
CreatorFp == InviteFp + 1

\* An armored private key of fingerprint fp, locked with passphrase pw.
EncryptedKey(fp, pw) == [armor |-> "text", fp |-> fp, pw |-> pw]

NoEncryptedKey == [armor |-> "", fp |-> 0, pw |-> <<>>]

\* An entity of an openpgp.EntityList.
Entity(fp, private) == [fp |-> fp, private |-> private]

\* crypto.ReadArmoredKey: (EntityList, error).
ReadArmoredKey(armored) ==
    [ok |-> ReadArmoredKeyOk(armored),
     entities |-> IF ReadArmoredKeyOk(armored)
                  THEN <<Entity(armored.fp, FALSE)>> ELSE <<>>]

\* crypto.ReadPrivkey: (EntityList, error); the passphrase must unlock it.
ReadPrivkey(encrypted, pw) ==
    LET ok == encrypted.fp # 0 /\ encrypted.pw = pw IN
    [ok |-> ok,
     entities |-> IF ok THEN <<Entity(encrypted.fp, TRUE)>> ELSE <<>>]

\* crypto.VerifyPubkeyWithPrivkey: nil iff the two are one key pair.
VerifyPubkeyWithPrivkey(pubkey, privkey) ==
    /\ Len(pubkey) > 0
    /\ Len(privkey) > 0
    /\ pubkey[1].fp = privkey[1].fp

(***************************************************************************)
(* Texts: decrypted bodies, and the output of Parse.  A text is known by   *)
(* its kind and content: the empty text; the text of a JSON object, in the *)
(* layout json.Marshal writes ("compact") or in another ("spaced"); a text *)
(* that starts with "{" and is not JSON ("broken"); a JSON string holding  *)
(* a URL ("string", first byte a double quote); a bare URL ("bare"); the   *)
(* text null.                                                              *)
(***************************************************************************)
Text(kind, obj, url, fmt) ==
    [kind |-> kind, obj |-> obj, url |-> url, fmt |-> fmt]

NoObject == [k \in {} |-> ""]

EmptyText == Text("empty", NoObject, "", "")

NullText == Text("null", NoObject, "", "")

ObjectText(obj, fmt) == Text("object", obj, "", fmt)

BrokenText == Text("broken", NoObject, "", "")

QuotedUrl(url) == Text("string", NoObject, url, "")

BareUrl(url) == Text("bare", NoObject, url, "")

\* strings.HasPrefix(text, "{")
HasBracePrefix(text) == text.kind \in {"object", "broken"}

\* A Go map[string]interface{}: nil, or its entries.
NilObject == [nil |-> TRUE, m |-> NoObject]

MakeObject(obj) == [nil |-> FALSE, m |-> obj]

\* json.Unmarshal(text, &map): an object decodes, null leaves the map nil,
\* everything else (the empty input too) is an error.
JsonUnmarshalObject(text) ==
    IF text.kind = "object" THEN [ok |-> TRUE, value |-> MakeObject(text.obj)]
    ELSE IF text.kind = "null" THEN [ok |-> TRUE, value |-> NilObject]
    ELSE [ok |-> FALSE, value |-> NilObject]

\* json.Marshal(map): a nil map is written null, an object in compact layout.
JsonMarshalObject(object) ==
    IF object.nil THEN NullText ELSE ObjectText(object.m, "compact")

\* An armored message encrypted to key `to`, signed by key `by`.
Message(to, by, plain) ==
    [armor |-> "text", to |-> to, by |-> by, plain |-> plain]

NoMessage == [armor |-> "", to |-> 0, by |-> 0, plain |-> EmptyText]

\* crypto.DecryptAndVerify(message, keyring): (plaintext, error).  It
\* decrypts with a private key of the ring and verifies the signature with
\* a public key of the ring; there is no plaintext without both.
DecryptAndVerify(message, keyring) ==
    LET ok == /\ message.to # 0
              /\ \E i \in DOMAIN keyring :
                    keyring[i].private /\ keyring[i].fp = message.to
              /\ \E i \in DOMAIN keyring :
                    ~keyring[i].private /\ keyring[i].fp = message.by
    IN  [ok |-> ok, bytes |-> IF ok THEN message.plain ELSE EmptyText]

\* A cleartext-signed document: its signing key, and whether its text is a
\* JSON object of keyables (then `map` holds them).
SignedDoc(by, json, map) ==
    [armor |-> "text", by |-> by, json |-> json, map |-> map]

NoDoc == [armor |-> "", by |-> 0, json |-> FALSE, map |-> <<>>]

\* crypto.VerifySignedCleartext(document, signerPubkey): (plaintext, error).
VerifySignedCleartext(doc, signerPubkey) ==
    /\ doc.by # 0
    /\ Len(signerPubkey) > 0
    /\ doc.by = signerPubkey[1].fp

(***************************************************************************)
(* parser/parser.go                                                        *)
(*                                                                         *)
(* The source at hand does not build: decryptEnv and the functions after   *)
(* it name locals that are not declared (err, decryptedEnvBytes,           *)
(* decryptedVerified, RawResponse.env, DecryptedInheritanceBytes) and miss *)
(* return statements.  The model keeps its control flow as written and     *)
(* reads each such name as the field or receiver it stands for:            *)
(* decryptedEnvBytes is response.DecryptedEnvBytes, RawResponse.env is     *)
(* RawResponse.Env, and so on.  Where decryptAndVerify calls a function    *)
(* and drops the error it returns, the model drops it as well.             *)
(***************************************************************************)
EnvServiceResponse(env, encryptedPrivkey, pubkey, signedTrustedPubkeys, signedById, signedByPubkey, signedByTrustedPubkeys, overrides, overridesSignedById, overridesSignedByPubkey, overridesSignedByTrustedPubkeys, allowCaching) ==
    [Env |-> env,
     EncryptedPrivkey |-> encryptedPrivkey,
     PubkeyArmored |-> pubkey,
     SignedTrustedPubkeys |-> signedTrustedPubkeys,
     SignedById |-> signedById,
     SignedByPubkeyArmored |-> signedByPubkey,
     SignedByTrustedPubkeys |-> signedByTrustedPubkeys,
     InheritanceOverrides |-> overrides,
     InheritanceOverridesSignedById |-> overridesSignedById,
     InheritanceOverridesSignedByPubkeyArmored |-> overridesSignedByPubkey,
     InheritanceOverridesSignedByTrustedPubkeys |->
         overridesSignedByTrustedPubkeys,
     AllowCaching |-> allowCaching]

\* new(parser.EnvServiceResponse)
ZeroResponse ==
    EnvServiceResponse(NoMessage, NoEncryptedKey, NoKey, NoDoc, "", NoKey,
                       NoDoc, NoMessage, "", NoKey, NoDoc, FALSE)

\* EnvServiceResponse.hasInheritanceOverrides
hasInheritanceOverrides(response) ==
    /\ response.InheritanceOverrides.armor # ""
    /\ response.InheritanceOverridesSignedById # ""
    /\ response.InheritanceOverridesSignedByPubkeyArmored.armor # ""
    /\ response.InheritanceOverridesSignedByTrustedPubkeys.armor # ""

\* EnvServiceResponse.validateInheritanceOverrides: the error, "" for nil.
validateInheritanceOverrides(response) ==
    LET hasAnyFields ==
            \/ response.InheritanceOverrides.armor # ""
            \/ response.InheritanceOverridesSignedById # ""
            \/ response.InheritanceOverridesSignedByPubkeyArmored.armor # ""
            \/ response.InheritanceOverridesSignedByTrustedPubkeys.armor # ""
    IN  IF hasAnyFields /\ ~hasInheritanceOverrides(response)
        THEN "Invalid inheritance override fields."
        ELSE ""

\* A variant of validate: the inheritance fields are not validated.
validateRequiredOnly(response) ==
    IF ~(/\ response.Env.armor # ""
         /\ response.EncryptedPrivkey.armor # ""
         /\ response.PubkeyArmored.armor # ""
         /\ response.SignedTrustedPubkeys.armor # ""
         /\ response.SignedById # ""
         /\ response.SignedByPubkeyArmored.armor # ""
         /\ response.SignedByTrustedPubkeys.armor # "")
    THEN "Required fields are empty."
    ELSE ""

\* EnvServiceResponse.validate: the error, "" for nil.
validate(response) ==
    LET valid == /\ response.Env.armor # ""
                 /\ response.EncryptedPrivkey.armor # ""
                 /\ response.PubkeyArmored.armor # ""
                 /\ response.SignedTrustedPubkeys.armor # ""
                 /\ response.SignedById # ""
                 /\ response.SignedByPubkeyArmored.armor # ""
                 /\ response.SignedByTrustedPubkeys.armor # ""
    IN  IF ~valid THEN "Required fields are empty."
        ELSE validateInheritanceOverrides(response)

\* ResponseWithKeys: the key rings parseKeys builds.
ResponseWithKeys(decryptedPrivkey, verifiedPubkey, signedByPubkey, inheritanceOverridesSignedByPubkey) ==
    [DecryptedPrivkey |-> decryptedPrivkey,
     VerifiedPubkey |-> verifiedPubkey,
     SignerKeyring |-> decryptedPrivkey \o signedByPubkey,
     SignedByPubkey |-> signedByPubkey,
     InheritanceOverridesSignedByPubkey |-> inheritanceOverridesSignedByPubkey,
     InheritanceSignerKeyring |->
         decryptedPrivkey \o inheritanceOverridesSignedByPubkey]

NoKeys == ResponseWithKeys(<<>>, <<>>, <<>>, <<>>)

\* A variant of parseKeys: the public key is not checked against the
\* private key.
parseKeysNoPairCheck(response, pw) ==
    LET decryptedPrivkey == ReadPrivkey(response.EncryptedPrivkey, pw)
        verifiedPubkey == ReadArmoredKey(response.PubkeyArmored)
        signedByPubkey == ReadArmoredKey(response.SignedByPubkeyArmored)
        overridesPubkey ==
            ReadArmoredKey(response.InheritanceOverridesSignedByPubkeyArmored)
        c1 == <<"ReadPrivkey">>
        c2 == Append(c1, "ReadArmoredKey(pubkey)")
        c4 == Append(c2, "ReadArmoredKey(signed_by_pubkey)")
        c5 == Append(c4, "ReadArmoredKey(inheritance_overrides_signed_by_pubkey)")
        fail(e, calls) == [err |-> e, keys |-> NoKeys, calls |-> calls]
    IN  IF ~decryptedPrivkey.ok THEN fail("ReadPrivkey failed", c1)
        ELSE IF ~verifiedPubkey.ok THEN fail("ReadArmoredKey failed", c2)
        ELSE IF ~signedByPubkey.ok THEN fail("ReadArmoredKey failed", c4)
        ELSE IF hasInheritanceOverrides(response) /\ ~overridesPubkey.ok
        THEN fail("ReadArmoredKey failed", c5)
        ELSE [err |-> "",
              keys |-> ResponseWithKeys(
                          decryptedPrivkey.entities, verifiedPubkey.entities,
                          signedByPubkey.entities,
                          IF hasInheritanceOverrides(response)
                          THEN overridesPubkey.entities ELSE <<>>),
              calls |-> IF hasInheritanceOverrides(response) THEN c5 ELSE c4]

\* EnvServiceResponse.parseKeys: (ResponseWithKeys, error), and the calls of
\* the adapter it made, in order.
parseKeys(response, pw) ==
    LET decryptedPrivkey == ReadPrivkey(response.EncryptedPrivkey, pw)
        verifiedPubkey == ReadArmoredKey(response.PubkeyArmored)
        signedByPubkey == ReadArmoredKey(response.SignedByPubkeyArmored)
        overridesPubkey ==
            ReadArmoredKey(response.InheritanceOverridesSignedByPubkeyArmored)
        c1 == <<"ReadPrivkey">>
        c2 == Append(c1, "ReadArmoredKey(pubkey)")
        c3 == Append(c2, "VerifyPubkeyWithPrivkey")
        c4 == Append(c3, "ReadArmoredKey(signed_by_pubkey)")
        c5 == Append(c4, "ReadArmoredKey(inheritance_overrides_signed_by_pubkey)")
        fail(e, calls) == [err |-> e, keys |-> NoKeys, calls |-> calls]
    IN  IF ~decryptedPrivkey.ok THEN fail("ReadPrivkey failed", c1)
        ELSE IF ~verifiedPubkey.ok THEN fail("ReadArmoredKey failed", c2)
        ELSE IF ~VerifyPubkeyWithPrivkey(verifiedPubkey.entities,
                                         decryptedPrivkey.entities)
        THEN fail("VerifyPubkeyWithPrivkey failed", c3)
        ELSE IF ~signedByPubkey.ok THEN fail("ReadArmoredKey failed", c4)
        ELSE IF hasInheritanceOverrides(response) /\ ~overridesPubkey.ok
        THEN fail("ReadArmoredKey failed", c5)
        ELSE [err |-> "",
              keys |-> ResponseWithKeys(
                          decryptedPrivkey.entities, verifiedPubkey.entities,
                          signedByPubkey.entities,
                          IF hasInheritanceOverrides(response)
                          THEN overridesPubkey.entities ELSE <<>>),
              calls |-> IF hasInheritanceOverrides(response) THEN c5 ELSE c4]

\* A variant of parseTrustedKeys: the result of the signature check is
\* ignored.
parseTrustedKeysUnverified(rawTrusted, signerPubkey) ==
    IF ~rawTrusted.json
    THEN [err |-> "json: cannot unmarshal", map |-> NilMap]
    ELSE [err |-> "", map |-> MakeMap(rawTrusted.map)]

\* parseTrustedKeys: (TrustedKeyablesMap, error).
parseTrustedKeys(rawTrusted, signerPubkey) ==
    IF ~VerifySignedCleartext(rawTrusted, signerPubkey)
    THEN [err |-> "VerifySignedCleartext failed", map |-> NilMap]
    ELSE IF ~rawTrusted.json
    THEN [err |-> "json: cannot unmarshal", map |-> NilMap]
    ELSE [err |-> "", map |-> MakeMap(rawTrusted.map)]

NoChain == TrustedKeyablesChain(NilMap, NilMap, NilMap)

\* ResponseWithKeys.trustedKeyablesChain: (chain, error), the maps it has
\* built and the calls it made, in order.
trustedKeyablesChain(response, keys) ==
    LET creatorTrusted ==
            parseTrustedKeys(response.SignedTrustedPubkeys, keys.VerifiedPubkey)
        signerTrusted ==
            parseTrustedKeys(response.SignedByTrustedPubkeys, keys.SignedByPubkey)
        inheritanceOverridesTrusted ==
            parseTrustedKeys(response.InheritanceOverridesSignedByTrustedPubkeys,
                             keys.InheritanceOverridesSignedByPubkey)
        c1 == <<"parseTrustedKeys(signed_trusted_pubkeys)">>
        c2 == Append(c1, "parseTrustedKeys(signed_by_trusted_pubkeys)")
        c3 == Append(c2, "parseTrustedKeys(inheritance_overrides_signed_by_trusted_pubkeys)")
        fail(e, built, calls) ==
            [err |-> e, chain |-> NoChain, built |-> built, calls |-> calls]
    IN  IF creatorTrusted.err # "" THEN fail(creatorTrusted.err, {}, c1)
        ELSE IF signerTrusted.err # ""
        THEN fail(signerTrusted.err, {"creatorTrusted"}, c2)
        ELSE IF hasInheritanceOverrides(response)
        THEN IF inheritanceOverridesTrusted.err # ""
             THEN fail(inheritanceOverridesTrusted.err,
                       {"creatorTrusted", "signerTrusted"}, c3)
             ELSE [err |-> "",
                   chain |-> TrustedKeyablesChain(creatorTrusted.map,
                                signerTrusted.map,
                                inheritanceOverridesTrusted.map),
                   built |-> {"creatorTrusted", "signerTrusted",
                              "inheritanceOverridesTrusted"},
                   calls |-> c3]
        ELSE [err |-> "",
              chain |-> TrustedKeyablesChain(creatorTrusted.map,
                                             signerTrusted.map, NilMap),
              built |-> {"creatorTrusted", "signerTrusted"},
              calls |-> c2]

\* ResponseWithKeys.signer
ResponseSigner(response, keys) ==
    Signer(response.SignedById, response.SignedByPubkeyArmored, FALSE)

\* ResponseWithKeys.inheritanceOverridesSigner
ResponseInheritanceOverridesSigner(response, keys) ==
    IF ~hasInheritanceOverrides(response) THEN NilSigner
    ELSE Signer(response.InheritanceOverridesSignedById,
                response.InheritanceOverridesSignedByPubkeyArmored, TRUE)

\* ResponseWithTrustChain.verifyTrusted: the error, "" for nil.
verifyTrusted(chain, theSigner) ==
    LET r == ChainSignerTrustedKeyable(chain, theSigner) IN
    IF r.err # "" THEN r.err
    ELSE IF ~r.has THEN "Signer not trusted."
    ELSE ""

\* DecryptedVerifiedResponse, without its pointer to the response.
DecryptedVerifiedResponse(envBytes, overridesBytes, envString, overridesString, env, overrides) ==
    [DecryptedEnvBytes |-> envBytes,
     DecryptedInheritanceOverridesBytes |-> overridesBytes,
     DecryptedEnvString |-> envString,
     DecryptedInheritanceOverridesString |-> overridesString,
     DecryptedEnv |-> env,
     DecryptedInheritanceOverrides |-> overrides]

\* new(DecryptedVerifiedResponse)
ZeroDecrypted ==
    DecryptedVerifiedResponse(EmptyText, EmptyText, EmptyText, EmptyText,
                              NilObject, NilObject)

\* DecryptedVerifiedResponse.decryptEnv: the fields it leaves, and the error
\* it returns.  The bytes are assigned whatever DecryptAndVerify returns;
\* the string only when it succeeded.
decryptEnv(response, keys, dv) ==
    LET r == DecryptAndVerify(response.Env, keys.SignerKeyring) IN
    IF ~r.ok
    THEN [dv |-> [dv EXCEPT !.DecryptedEnvBytes = r.bytes],
          err |-> "DecryptAndVerify failed"]
    ELSE [dv |-> [dv EXCEPT !.DecryptedEnvBytes = r.bytes,
                            !.DecryptedEnvString = r.bytes],
          err |-> ""]

\* DecryptedVerifiedResponse.decryptInheritanceOverrides
decryptInheritanceOverrides(response, keys, dv) ==
    LET r == DecryptAndVerify(response.InheritanceOverrides,
                              keys.InheritanceSignerKeyring) IN
    IF ~r.ok
    THEN [dv |-> [dv EXCEPT !.DecryptedInheritanceOverridesBytes = r.bytes],
          err |-> "DecryptAndVerify failed"]
    ELSE [dv |-> [dv EXCEPT !.DecryptedInheritanceOverridesBytes = r.bytes,
                            !.DecryptedInheritanceOverridesString = r.bytes],
          err |-> ""]

\* What an HTTP GET of a pointer ends in: a transport error, or a status and
\* a body.
GetResult(failed, status, body) ==
    [failed |-> failed, status |-> status, body |-> body]

\* A variant of checkEnvUrlPointer: when the body decrypted after the GET is
\* a pointer again, it is requested too.
checkEnvUrlPointerFollowing(response, keys, dv, get) ==
    LET stay(e, urls) == [response |-> response, dv |-> dv, err |-> e,
                          urls |-> urls, calls |-> <<>>]
        url == dv.DecryptedEnvString
        pointed == [response EXCEPT !.Env = get.body]
        again == decryptEnv(pointed, keys, dv)
        second == IF /\ again.dv.DecryptedEnvString.kind # "empty"
                     /\ ~HasBracePrefix(again.dv.DecryptedEnvString)
                  THEN <<again.dv.DecryptedEnvString>> ELSE <<>>
    IN  IF dv.DecryptedEnvString.kind = "empty"
        THEN stay("env must first be decrypted before checking for url pointer.", <<>>)
        ELSE IF ~HasBracePrefix(dv.DecryptedEnvString)
        THEN IF get.failed THEN stay("GET failed", <<url>>)
             ELSE IF get.status >= 400
             THEN stay("environment pointer url could not be loaded.", <<url>>)
             ELSE [response |-> pointed, dv |-> again.dv, err |-> again.err,
                   urls |-> <<url>> \o second,
                   calls |-> <<"DecryptAndVerify(env)">>]
        ELSE stay("", <<>>)

\* DecryptedVerifiedResponse.checkEnvUrlPointer, `get` being what the GET
\* ends in if one is issued: the response and fields it leaves, the error it
\* returns, the URLs requested and the calls of DecryptAndVerify made.
checkEnvUrlPointer(response, keys, dv, get) ==
    LET stay(e, urls) == [response |-> response, dv |-> dv, err |-> e,
                          urls |-> urls, calls |-> <<>>]
        url == dv.DecryptedEnvString
        pointed == [response EXCEPT !.Env = get.body]
        again == decryptEnv(pointed, keys, dv)
    IN  IF dv.DecryptedEnvString.kind = "empty"
        THEN stay("env must first be decrypted before checking for url pointer.", <<>>)
        ELSE IF ~HasBracePrefix(dv.DecryptedEnvString)
        THEN IF get.failed THEN stay("GET failed", <<url>>)
             ELSE IF get.status >= 400
             THEN stay("environment pointer url could not be loaded.", <<url>>)
             ELSE [response |-> pointed, dv |-> again.dv, err |-> again.err,
                   urls |-> <<url>>, calls |-> <<"DecryptAndVerify(env)">>]
        ELSE stay("", <<>>)

\* DecryptedVerifiedResponse.checkInheritanceOverridesUrlPointer.  As
\* written it stores the body it fetched in the env field of the response
\* and calls decryptEnv.
checkInheritanceOverridesUrlPointer(response, keys, dv, get) ==
    LET stay(e, urls) == [response |-> response, dv |-> dv, err |-> e,
                          urls |-> urls, calls |-> <<>>]
        url == dv.DecryptedInheritanceOverridesString
        pointed == [response EXCEPT !.Env = get.body]
        again == decryptEnv(pointed, keys, dv)
    IN  IF dv.DecryptedInheritanceOverridesString.kind = "empty"
        THEN stay("inheritance overrides must first be decrypted before checking for url pointer.", <<>>)
        ELSE IF ~HasBracePrefix(dv.DecryptedInheritanceOverridesString)
        THEN IF get.failed THEN stay("GET failed", <<url>>)
             ELSE IF get.status >= 400
             THEN stay("environment pointer url could not be loaded.", <<url>>)
             ELSE [response |-> pointed, dv |-> again.dv, err |-> again.err,
                   urls |-> <<url>>, calls |-> <<"DecryptAndVerify(env)">>]
        ELSE stay("", <<>>)

\* DecryptedVerifiedResponse.toMap: the map returned and the receiver.  The
\* overrides are written into the map of DecryptedEnv itself, which is the
\* map returned.
toMap(dv) ==
    IF \/ dv.DecryptedEnvString.kind # "empty"
       \/ dv.DecryptedEnv.nil
       \/ dv.DecryptedInheritanceOverrides.nil
    THEN [value |-> NilObject, dv |-> dv]
    ELSE LET env == dv.DecryptedEnv.m
             overrides == dv.DecryptedInheritanceOverrides.m
             merged == MakeObject([k \in DOMAIN env \cup DOMAIN overrides |->
                                      IF k \in DOMAIN overrides
                                      THEN overrides[k] ELSE env[k]])
         IN  [value |-> merged, dv |-> [dv EXCEPT !.DecryptedEnv = merged]]

\* A toJson that decodes the env text and writes it again.
toJsonReserialized(dv) ==
    [out |-> JsonMarshalObject(
                 JsonUnmarshalObject(dv.DecryptedEnvString).value),
     dv |-> dv]

\* DecryptedVerifiedResponse.toJson: the string returned (json.Marshal of a
\* map of strings does not fail) and the receiver.
toJson(dv) ==
    IF dv.DecryptedEnvString.kind = "empty"
    THEN [out |-> JsonMarshalObject(toMap(dv).value), dv |-> toMap(dv).dv]
    ELSE [out |-> dv.DecryptedEnvString, dv |-> dv]

(***************************************************************************)
(* EnvServiceResponse.Parse as a sequence of stages, one for each call     *)
(* Parse and decryptAndVerify make.  A stage takes the state of the run    *)
(* and returns the next one; `calls` lists the calls made so far, `urls`   *)
(* the pointers requested, `dropped` the errors that were returned to      *)
(* decryptAndVerify and not looked at.                                     *)
(***************************************************************************)
ParseEnter(response, pw) ==
    [pc |-> "validate", response |-> response, pw |-> pw, keys |-> NoKeys,
     chain |-> NoChain, built |-> {}, trusted |-> {}, dv |-> ZeroDecrypted,
     calls |-> <<>>, urls |-> <<>>, dropped |-> <<>>,
     out |-> EmptyText, err |-> ""]

\* return "", err
ParseFail(ps, err) == [ps EXCEPT !.pc = "done", !.out = EmptyText, !.err = err]

Dropped(dropped, err) == IF err = "" THEN dropped ELSE Append(dropped, err)

\* Parse: err = response.validate()
StageValidate(ps) ==
    LET err == validate(ps.response) IN
    IF err # "" THEN ParseFail(ps, err)
    ELSE [ps EXCEPT !.pc = "parseKeys"]

\* Parse: responseWithKeys, err = response.parseKeys(pw)
StageParseKeys(ps) ==
    LET r == parseKeys(ps.response, ps.pw)
        made == [ps EXCEPT !.calls = @ \o r.calls]
    IN  IF r.err # "" THEN ParseFail(made, r.err)
        ELSE [made EXCEPT !.pc = "parseTrustChain", !.keys = r.keys]

\* Parse: responseWithTrustChain, err = responseWithKeys.parseTrustChain()
StageParseTrustChain(ps) ==
    LET r == trustedKeyablesChain(ps.response, ps.keys)
        made == [ps EXCEPT !.calls = @ \o r.calls, !.built = r.built]
    IN  IF r.err # "" THEN ParseFail(made, r.err)
        ELSE [made EXCEPT !.pc = "verifySigner", !.chain = r.chain]

\* A variant of StageVerifySigner: the env signer is not verified.
StageVerifySignerSkipped(ps) ==
    [ps EXCEPT !.pc = IF hasInheritanceOverrides(ps.response)
                      THEN "verifyInheritanceSigner" ELSE "decryptEnv"]

\* decryptAndVerify: err = response.verifyTrusted(response.Signer)
StageVerifySigner(ps) ==
    LET err == verifyTrusted(ps.chain, ResponseSigner(ps.response, ps.keys))
        made == [ps EXCEPT !.calls = Append(@, "verifyTrusted(signer)")]
    IN  IF err # "" THEN ParseFail(made, err)
        ELSE [made EXCEPT
                !.trusted = @ \cup {"signer"},
                !.pc = IF hasInheritanceOverrides(ps.response)
                       THEN "verifyInheritanceSigner" ELSE "decryptEnv"]

\* decryptAndVerify: err = response.verifyTrusted(
\* response.InheritanceOverridesSigner)
StageVerifyInheritanceSigner(ps) ==
    LET err == verifyTrusted(ps.chain,
                   ResponseInheritanceOverridesSigner(ps.response, ps.keys))
        made == [ps EXCEPT
                    !.calls = Append(@, "verifyTrusted(inheritanceOverridesSigner)")]
    IN  IF err # "" THEN ParseFail(made, err)
        ELSE [made EXCEPT !.trusted = @ \cup {"inheritanceOverridesSigner"},
                          !.pc = "decryptEnv"]

\* decryptAndVerify: decryptedVerifiedResponse.decryptEnv()
StageDecryptEnv(ps) ==
    LET r == decryptEnv(ps.response, ps.keys, ps.dv) IN
    [ps EXCEPT !.pc = "checkEnvUrlPointer",
               !.dv = r.dv,
               !.calls = Append(@, "DecryptAndVerify(env)"),
               !.dropped = Dropped(@, r.err)]

\* decryptAndVerify: decryptedVerifiedResponse.checkEnvUrlPointer()
StageCheckEnvUrlPointer(ps, get) ==
    LET r == checkEnvUrlPointer(ps.response, ps.keys, ps.dv, get) IN
    [ps EXCEPT !.pc = IF hasInheritanceOverrides(ps.response)
                      THEN "decryptInheritanceOverrides" ELSE "toJson",
               !.response = r.response,
               !.dv = r.dv,
               !.urls = @ \o [i \in DOMAIN r.urls |->
                                 [field |-> "env", url |-> r.urls[i]]],
               !.calls = @ \o r.calls,
               !.dropped = Dropped(@, r.err)]

\* decryptAndVerify: decryptedVerifiedResponse.decryptInheritanceOverrides()
StageDecryptInheritanceOverrides(ps) ==
    LET r == decryptInheritanceOverrides(ps.response, ps.keys, ps.dv) IN
    [ps EXCEPT !.pc = "checkInheritanceOverridesUrlPointer",
               !.dv = r.dv,
               !.calls = Append(@, "DecryptAndVerify(inheritance_overrides)"),
               !.dropped = Dropped(@, r.err)]

\* decryptAndVerify:
\* decryptedVerifiedResponse.checkInheritanceOverridesUrlPointer()
StageCheckInheritanceOverridesUrlPointer(ps, get) ==
    LET r == checkInheritanceOverridesUrlPointer(ps.response, ps.keys, ps.dv,
                                                 get) IN
    [ps EXCEPT !.pc = "unmarshal",
               !.response = r.response,
               !.dv = r.dv,
               !.urls = @ \o [i \in DOMAIN r.urls |->
                                 [field |-> "inheritance_overrides",
                                  url |-> r.urls[i]]],
               !.calls = @ \o r.calls,
               !.dropped = Dropped(@, r.err)]

\* decryptAndVerify: the two json.Unmarshal of the inheritance branch.
StageUnmarshal(ps) ==
    LET env == JsonUnmarshalObject(ps.dv.DecryptedEnvBytes)
        inheritanceOverrides ==
            JsonUnmarshalObject(ps.dv.DecryptedInheritanceOverridesBytes)
    IN  IF ~env.ok THEN ParseFail(ps, "json: cannot unmarshal env")
        ELSE IF ~inheritanceOverrides.ok
        THEN ParseFail(ps, "json: cannot unmarshal inheritance overrides")
        ELSE [ps EXCEPT
                !.pc = "toJson",
                !.dv = [@ EXCEPT
                          !.DecryptedEnv = env.value,
                          !.DecryptedInheritanceOverrides =
                              inheritanceOverrides.value]]

\* Parse: return decryptedVerified.toJson()
StageToJson(ps) ==
    [ps EXCEPT !.pc = "done", !.out = toJson(ps.dv).out,
               !.dv = toJson(ps.dv).dv, !.err = ""]

\* The stage the run is at; gets.env and gets.overrides are what the GET of
\* each pointer ends in, should it be issued.
ParseStage(ps, gets) ==
    CASE ps.pc = "validate" -> StageValidate(ps)
      [] ps.pc = "parseKeys" -> StageParseKeys(ps)
      [] ps.pc = "parseTrustChain" -> StageParseTrustChain(ps)
      [] ps.pc = "verifySigner" -> StageVerifySigner(ps)
      [] ps.pc = "verifyInheritanceSigner" -> StageVerifyInheritanceSigner(ps)
      [] ps.pc = "decryptEnv" -> StageDecryptEnv(ps)
      [] ps.pc = "checkEnvUrlPointer" -> StageCheckEnvUrlPointer(ps, gets.env)
      [] ps.pc = "decryptInheritanceOverrides" ->
            StageDecryptInheritanceOverrides(ps)
      [] ps.pc = "checkInheritanceOverridesUrlPointer" ->
            StageCheckInheritanceOverridesUrlPointer(ps, gets.overrides)
      [] ps.pc = "unmarshal" -> StageUnmarshal(ps)
      [] ps.pc = "toJson" -> StageToJson(ps)
      [] OTHER -> ps

RECURSIVE ParseRun(_, _)
ParseRun(ps, gets) ==
    IF ps.pc = "done" THEN ps ELSE ParseRun(ParseStage(ps, gets), gets)

\* EnvServiceResponse.Parse: (string, error) in the fields out and err.
Parse(response, pw, gets) == ParseRun(ParseEnter(response, pw), gets)

(***************************************************************************)
(* SpecParse: Parse on the envelopes of the bounded input set below, one   *)
(* stage per step.                                                         *)
(*                                                                         *)
(* The credential's key pair has fingerprint CreatorFp and passphrase      *)
(* "pw".  The env signer is "a" with key 1, the overrides signer "b" with  *)
(* key OverridesFp, and "c", with key 2, is a root of the creator-trusted  *)
(* map.                                                                    *)
(***************************************************************************)
Passphrase == <<"pw">>

OverridesFp == InviteFp + 2

RootKeyable(fp) == TrustedKeyable(Key(fp, 0), NoKey, "")

\* Invited by "c", whose key is 2: the invite key is signed by key 2 and
\* signs the pubkey, or (signed = FALSE) does not sign it.
InvitedKeyable(fp, signed) ==
    TrustedKeyable(Key(fp, IF signed THEN InviteFp ELSE 0),
                   Key(InviteFp, 2), "c")

CreatorRoots == "c" :> RootKeyable(2)

CreatorRootsAndSigners ==
    ("a" :> RootKeyable(1)) @@ ("b" :> RootKeyable(OverridesFp))
        @@ ("c" :> RootKeyable(2))

EncryptedPrivkeys ==
    {EncryptedKey(CreatorFp, Passphrase), EncryptedKey(CreatorFp, <<"other">>)}

Pubkeys == {Key(CreatorFp, 0), Key(2, 0), BadKey}

\* signed_trusted_pubkeys: signed by the creator key or (tampered) not.
CreatorDocs ==
    {SignedDoc(CreatorFp, TRUE, CreatorRoots),
     SignedDoc(2, TRUE, CreatorRoots),
     SignedDoc(CreatorFp, TRUE, CreatorRootsAndSigners),
     SignedDoc(CreatorFp, FALSE, <<>>)}

SignedByPubkeys == {Key(1, 0), BadKey}

SignerDocs ==
    {SignedDoc(1, TRUE, "a" :> InvitedKeyable(1, TRUE)),
     SignedDoc(2, TRUE, "a" :> InvitedKeyable(1, TRUE)),
     SignedDoc(1, TRUE, "a" :> InvitedKeyable(1, FALSE))}

EnvObject == ("A" :> "1") @@ ("B" :> "2")

OverridesObject == ("B" :> "override") @@ ("C" :> "3")

PointedObject == ("A" :> "pointed") @@ ("D" :> "4")

EnvPlains ==
    {ObjectText(EnvObject, "compact"), ObjectText(EnvObject, "spaced"),
     BareUrl("https://u1"), QuotedUrl("https://u1"), EmptyText, BrokenText}

Envs ==
    {Message(CreatorFp, 1, plain) : plain \in EnvPlains}
        \cup {Message(CreatorFp, 2, ObjectText(EnvObject, "compact"))}

Overrides ==
    {Message(CreatorFp, OverridesFp, plain) :
        plain \in {ObjectText(OverridesObject, "spaced"),
                   BareUrl("https://u2"), EmptyText}}
        \cup {Message(CreatorFp, 2, ObjectText(OverridesObject, "compact"))}

OverridesPubkeys == {Key(OverridesFp, 0), BadKey}

OverridesDocs ==
    {SignedDoc(OverridesFp, TRUE, "b" :> InvitedKeyable(OverridesFp, TRUE)),
     SignedDoc(2, TRUE, "b" :> InvitedKeyable(OverridesFp, TRUE)),
     SignedDoc(OverridesFp, TRUE, "b" :> InvitedKeyable(OverridesFp, FALSE))}

\* The bodies a pointer may lead to.
PointedBodies ==
    {Message(CreatorFp, 1, ObjectText(PointedObject, "spaced")),
     Message(CreatorFp, OverridesFp, ObjectText(OverridesObject, "compact")),
     Message(CreatorFp, 1, BareUrl("https://u3")),
     Message(CreatorFp, 2, ObjectText(PointedObject, "compact")),
     NoMessage}

GetResults ==
    {GetResult(TRUE, 0, NoMessage)}
        \cup {GetResult(FALSE, 200, body) : body \in PointedBodies}
        \cup {GetResult(FALSE, status,
                        Message(CreatorFp, 1, ObjectText(PointedObject, "compact"))) :
                status \in {399, 400, 500}}

FieldNames == DOMAIN ZeroResponse \ {"AllowCaching"}

InheritanceFields ==
    {"InheritanceOverrides", "InheritanceOverridesSignedById",
     "InheritanceOverridesSignedByPubkeyArmored",
     "InheritanceOverridesSignedByTrustedPubkeys"}

\* `response` with the fields of `empty` set to the empty string.
Blank(response, empty) ==
    [f \in DOMAIN response |->
        IF f \in empty THEN ZeroResponse[f] ELSE response[f]]

DefaultResponse ==
    EnvServiceResponse(
        Message(CreatorFp, 1, ObjectText(EnvObject, "compact")),
        EncryptedKey(CreatorFp, Passphrase), Key(CreatorFp, 0),
        SignedDoc(CreatorFp, TRUE, CreatorRoots), "a", Key(1, 0),
        SignedDoc(1, TRUE, "a" :> InvitedKeyable(1, TRUE)),
        Message(CreatorFp, OverridesFp, ObjectText(OverridesObject, "spaced")),
        "b", Key(OverridesFp, 0),
        SignedDoc(OverridesFp, TRUE, "b" :> InvitedKeyable(OverridesFp, TRUE)),
        FALSE)

\* The envelopes Parse is run on: every content with all eleven fields set,
\* every content with the four inheritance fields empty, and the default
\* content with every other set of fields empty.
ParseInput(ps) ==
    \/ \E env \in Envs, priv \in EncryptedPrivkeys, pub \in Pubkeys,
          creatorDoc \in CreatorDocs, signedBy \in SignedByPubkeys,
          signerDoc \in SignerDocs :
          \/ \E ov \in Overrides, ovPub \in OverridesPubkeys,
                ovDoc \in OverridesDocs :
                ps = ParseEnter(
                        EnvServiceResponse(env, priv, pub, creatorDoc, "a",
                            signedBy, signerDoc, ov, "b", ovPub, ovDoc, FALSE),
                        Passphrase)
          \/ ps = ParseEnter(
                     EnvServiceResponse(env, priv, pub, creatorDoc, "a",
                         signedBy, signerDoc, NoMessage, "", NoKey, NoDoc,
                         FALSE),
                     Passphrase)
    \/ \E empty \in SUBSET FieldNames :
          /\ empty # {}
          /\ empty # InheritanceFields
          /\ ps = ParseEnter(Blank(DefaultResponse, empty), Passphrase)

ParseStepTo(next) ==
    /\ parse' = next
    /\ UNCHANGED <<trust, fetch>>

ParseValidate ==
    /\ parse.pc = "validate"
    /\ ParseStepTo(StageValidate(parse))

ParseParseKeys ==
    /\ parse.pc = "parseKeys"
    /\ ParseStepTo(StageParseKeys(parse))

ParseParseTrustChain ==
    /\ parse.pc = "parseTrustChain"
    /\ ParseStepTo(StageParseTrustChain(parse))

ParseVerifySigner ==
    /\ parse.pc = "verifySigner"
    /\ ParseStepTo(StageVerifySigner(parse))

ParseVerifyInheritanceSigner ==
    /\ parse.pc = "verifyInheritanceSigner"
    /\ ParseStepTo(StageVerifyInheritanceSigner(parse))

ParseDecryptEnv ==
    /\ parse.pc = "decryptEnv"
    /\ ParseStepTo(StageDecryptEnv(parse))

ParseCheckEnvUrlPointer ==
    /\ parse.pc = "checkEnvUrlPointer"
    /\ \E get \in GetResults : ParseStepTo(StageCheckEnvUrlPointer(parse, get))

ParseDecryptInheritanceOverrides ==
    /\ parse.pc = "decryptInheritanceOverrides"
    /\ ParseStepTo(StageDecryptInheritanceOverrides(parse))

ParseCheckInheritanceOverridesUrlPointer ==
    /\ parse.pc = "checkInheritanceOverridesUrlPointer"
    /\ \E get \in GetResults :
          ParseStepTo(StageCheckInheritanceOverridesUrlPointer(parse, get))

ParseUnmarshal ==
    /\ parse.pc = "unmarshal"
    /\ ParseStepTo(StageUnmarshal(parse))

ParseToJson ==
    /\ parse.pc = "toJson"
    /\ ParseStepTo(StageToJson(parse))

(***************************************************************************)
(* fetch.go (the current version of the file).  A string that the code     *)
(* splits or joins is a sequence of atoms, "-" being the separator; the    *)
(* passphrase handed to Parse is such a sequence.                          *)
(*                                                                         *)
(* Package cache is modelled from its description: a store with one entry  *)
(* for each credential id, read(id), delete(id), and a write(id, bytes)    *)
(* that Fetch starts as a task of its own and does not wait for.           *)
(***************************************************************************)
Sep == "-"

\* strings.Split(s, "-")
RECURSIVE Split(_)
Split(s) ==
    IF \A i \in DOMAIN s : s[i] # Sep THEN <<s>>
    ELSE LET i == CHOOSE i \in DOMAIN s :
                     s[i] = Sep /\ \A j \in 1..(i - 1) : s[j] # Sep
         IN  <<SubSeq(s, 1, i - 1)>> \o Split(SubSeq(s, i + 1, Len(s)))

\* strings.Join(pieces, "-")
RECURSIVE Join(_)
Join(pieces) ==
    IF Len(pieces) = 0 THEN <<>>
    ELSE IF Len(pieces) = 1 THEN pieces[1]
    ELSE pieces[1] \o <<Sep>> \o Join(Tail(pieces))

DefaultHost == <<"env.envkey.com">>

BackupHost == <<"s3-eu-west-1.amazonaws.com/envkey-backup/envs">>

BackupHostRestricted ==
    <<"me66hg5t17.execute-api.eu-west-1.amazonaws.com/default/envBackup">>

FetchOptions(shouldCache, verboseOutput) ==
    [ShouldCache |-> shouldCache, VerboseOutput |-> verboseOutput]

\* A variant of splitEnvkey: the host is the third piece alone.
splitEnvkeyThirdPiece(envkey) ==
    LET split == Split(envkey) IN
    IF Len(split) > 2
    THEN [envkeyParam |-> split[1], pw |-> split[2], envkeyHost |-> split[3]]
    ELSE [envkeyParam |-> split[1], pw |-> split[2], envkeyHost |-> <<>>]

splitEnvkey(envkey) ==
    LET split == Split(envkey) IN
    IF Len(split) > 2
    THEN [envkeyParam |-> split[1], pw |-> split[2],
          envkeyHost |-> Join(SubSeq(split, 3, Len(split)))]
    ELSE [envkeyParam |-> split[1], pw |-> split[2], envkeyHost |-> <<>>]

\* getBaseUrl and getJsonUrl: the host and the id of the url, and the part
\* of the url the id is in (the path).
getJsonUrl(envkeyHost, envkeyParam) ==
    [host |-> IF envkeyHost = <<>> THEN DefaultHost ELSE envkeyHost,
     param |-> envkeyParam, place |-> "path"]

\* The first backup url has the id in its path, the second in its query.
getBackupUrls(envkeyParam) ==
    <<[host |-> BackupHost, param |-> envkeyParam, place |-> "path"],
      [host |-> BackupHostRestricted, param |-> envkeyParam,
       place |-> "query"]>>

\* A piece with a space in it, and the piece as a path is written with it
\* escaped.
SpacedId == "i d"

SpacedIdEscaped == "i%20d"

\* req.URL.String() of the request made for `url`: a path is written
\* escaped, a query as it was given.
UrlString(url) ==
    IF url.place = "path"
    THEN [url EXCEPT !.param = [i \in DOMAIN url.param |->
                                   IF url.param[i] = SpacedId
                                   THEN SpacedIdEscaped ELSE url.param[i]]]
    ELSE url

\* A piece that is no escape sequence.
BadEscape == "%zz"

\* http.NewRequest("GET", url, nil) fails on a url that does not parse: one
\* with a space or a malformed escape in its host, or a malformed escape in
\* its path.  A space in the path parses, and the query is kept as it is
\* given.
NewRequestOk(url) ==
    /\ \A i \in DOMAIN url.host : url.host[i] \notin {BadEscape, SpacedId}
    /\ url.place = "path" =>
          \A i \in DOMAIN url.param : url.param[i] # BadEscape

(***************************************************************************)
(* Response bodies.  A body is empty, or JSON that decodes into an         *)
(* envelope ("json"), or JSON with a field of the wrong type, which        *)
(* json.Unmarshal decodes as far as it can before it returns an error      *)
(* ("mistyped"), or not JSON ("garbage").                                  *)
(***************************************************************************)
Body(kind, envelope) == [kind |-> kind, envelope |-> envelope]

NilBody == Body("empty", ZeroResponse)

\* json.Unmarshal(body, response), response being new(EnvServiceResponse).
JsonUnmarshalResponse(body) ==
    CASE body.kind = "json" -> [err |-> "", response |-> body.envelope]
      [] body.kind = "mistyped" ->
            [err |-> "json: cannot unmarshal", response |-> body.envelope]
      [] body.kind = "garbage" ->
            [err |-> "invalid character", response |-> ZeroResponse]
      [] OTHER ->
            [err |-> "unexpected end of JSON input", response |-> ZeroResponse]

\* What Client.Do returns: a response, or an error.
HttpResponse(status, body) == [err |-> "", status |-> status, body |-> body]

HttpError(err) == [err |-> err, status |-> 0, body |-> NilBody]

NoResponse == HttpError("")

MissingRoots == "x509: failed to load system roots"

\* The cache: the entry of the credential id.
NoEntry == [present |-> FALSE, body |-> NilBody]

Entry(body) == [present |-> TRUE, body |-> body]

\* cache.Read(id): (body, error)
CacheRead(store) ==
    [err |-> IF store.present THEN "" ELSE "no cache entry",
     body |-> store.body]

\* cache.Delete(id)
CacheDelete(store) == NoEntry

\* cache.Write(id, body), when it runs.
CacheWrite(store, body) == Entry(body)

(***************************************************************************)
(* The state of one call of Fetch.  The main goroutine is at pc; `tasks`   *)
(* are the goroutines running httpExecRequest, task 0 for the primary url  *)
(* and task i for the i-th backup url, `tries` counting the calls the      *)
(* running request has made of itself; `write` is the goroutine running    *)
(* fetchCache.Write.  `log` lists the requests issued and the cache        *)
(* operations in the order they happen; `served` is the body the servers  *)
(* hold for the id.  A pc of "panic" is a nil dereference in the main      *)
(* goroutine, a pc of "blocked" the main goroutine sending on a channel    *)
(* nobody receives from.                                                   *)
(***************************************************************************)
NumBackups == Len(getBackupUrls(<<>>))

TaskIds == 0..NumBackups

BackupIds == 1..NumBackups

MaxTries == 2

Task(st, msg, tries, cancelled) ==
    [st |-> st, msg |-> msg, tries |-> tries, cancelled |-> cancelled]

NoTask == Task("none", NoResponse, 0, FALSE)

NoWrite == [st |-> "none", body |-> NilBody]

FetchEnter(envkey, options, served, store) ==
    [pc |-> "Fetch", envkey |-> envkey, options |-> options,
     served |-> served, newCacheOk |-> FALSE, fetchCache |-> FALSE,
     store |-> store,
     write |-> NoWrite, tasks |-> [t \in TaskIds |-> NoTask],
     bundledRoots |-> FALSE, primary |-> NoResponse, raced |-> FALSE,
     winner |-> 0,
     r |-> NoResponse, fetchErr |-> "", backupFetchErr |-> <<>>,
     raceErr |-> <<>>, numErrs |-> 0, body |-> NilBody, response |-> ZeroResponse,
     log |-> <<>>, res |-> EmptyText, err |-> ""]

\* return res, err
FetchReturn(fs, res, err) ==
    [fs EXCEPT !.pc = "done", !.res = res, !.err = err]

FetchPanic(fs) == [fs EXCEPT !.pc = "panic"]

RequestName(t) ==
    IF t = 0 THEN "GET primary"
    ELSE IF t = 1 THEN "GET backup 1" ELSE "GET backup 2"

\* httpGetAsync: a request that cannot be built is reported on errChan by
\* the caller itself, which blocks there; else `go httpExecRequest`.
httpGetAsync(fs, t, url) ==
    IF fs.pc = "blocked" THEN fs
    ELSE IF ~NewRequestOk(url) THEN [fs EXCEPT !.pc = "blocked"]
    ELSE [fs EXCEPT !.tasks[t] = Task("running", NoResponse, 0, FALSE),
                    !.log = Append(@, RequestName(t))]

\* httpGet, up to its select.
httpGet(fs, url) ==
    LET started == httpGetAsync(fs, 0, url) IN
    IF started.pc = "blocked" THEN started
    ELSE [started EXCEPT !.pc = "httpGet"]

\* fetchBackup, up to its select.
RECURSIVE fetchBackupStart(_, _, _)
fetchBackupStart(fs, urls, t) ==
    IF t > Len(urls) THEN fs
    ELSE fetchBackupStart(httpGetAsync(fs, t, urls[t]), urls, t + 1)

fetchBackup(fs, envkeyParam) ==
    LET started == fetchBackupStart([fs EXCEPT !.raced = TRUE],
                                    getBackupUrls(envkeyParam), 1)
    IN  IF started.pc = "blocked" THEN started
        ELSE [started EXCEPT !.pc = "fetchBackup"]

\* Fetch, fetchEnv and getJson up to the select of httpGet; newCacheOk
\* tells whether cache.NewCache returns a cache, should it be called.
FetchCall(fs, newCacheOk) ==
    LET split == splitEnvkey(fs.envkey)
        url == getJsonUrl(split.envkeyHost, split.envkeyParam)
        made == [fs EXCEPT
                    !.newCacheOk = fs.options.ShouldCache /\ newCacheOk,
                    !.fetchCache = fs.options.ShouldCache /\ newCacheOk]
    IN  IF Len(Split(fs.envkey)) < 2
        THEN FetchReturn(fs, EmptyText, "ENVKEY invalid")
        ELSE IF /\ fs.options.ShouldCache
                /\ fs.options.VerboseOutput
                /\ newCacheOk
        THEN FetchPanic(made)      \* cacheErr.Error() of a nil cacheErr
        ELSE httpGet(made, url)

\* A getJson that goes to the backups on every status from 400.
getJsonAfterPrimaryFrom400(fs, msg) ==
    LET split == splitEnvkey(fs.envkey)
        got == [fs EXCEPT !.primary = msg,
                          !.r = IF msg.err = "" THEN msg ELSE NoResponse,
                          !.fetchErr = msg.err,
                          !.tasks[0] = Task("finished", NoResponse, 0, FALSE)]
    IN  IF msg.err # "" \/ msg.status >= 400
        THEN fetchBackup(got, split.envkeyParam)
        ELSE [got EXCEPT !.pc = "getJson"]

\* A variant of getJsonAfterPrimary: the backups are tried for every host.
getJsonAfterPrimaryAnyHost(fs, msg) ==
    LET split == splitEnvkey(fs.envkey)
        got == [fs EXCEPT !.primary = msg,
                          !.r = IF msg.err = "" THEN msg ELSE NoResponse,
                          !.fetchErr = msg.err,
                          !.tasks[0] = Task("finished", NoResponse, 0, FALSE)]
    IN  IF msg.err # "" \/ msg.status >= 500
        THEN fetchBackup(got, split.envkeyParam)
        ELSE [got EXCEPT !.pc = "getJson"]

\* getJson from the return of httpGet to the return of fetchBackup, or to
\* the branch on the response when there is no backup attempt.
getJsonAfterPrimary(fs, msg) ==
    LET split == splitEnvkey(fs.envkey)
        got == [fs EXCEPT !.primary = msg,
                          !.r = IF msg.err = "" THEN msg ELSE NoResponse,
                          !.fetchErr = msg.err,
                          !.tasks[0] = Task("finished", NoResponse, 0, FALSE)]
    IN  IF msg.err # "" \/ msg.status >= 500
        THEN IF split.envkeyHost = <<>> \/ split.envkeyHost = DefaultHost
             THEN fetchBackup(got, split.envkeyParam)
             ELSE [got EXCEPT !.pc = "getJson"]
        ELSE [got EXCEPT !.pc = "getJson"]

\* fetchBackup: case channelResp := <-respChan
\* The cancel function of every key of cancelFnByUrl other than
\* channelResp.url is called.
fetchBackupResponse(fs, t) ==
    LET urls == getBackupUrls(splitEnvkey(fs.envkey).envkeyParam)
        respUrl == UrlString(urls[t])
        cancel(u) == u \in BackupIds /\ urls[u] # respUrl
    IN  [fs EXCEPT !.pc = "getJson",
                   !.r = fs.tasks[t].msg,
                   !.winner = t,
                   !.tasks = [u \in TaskIds |->
                       IF u = t THEN Task("finished", NoResponse, 0, cancel(u))
                       ELSE IF cancel(u)
                       THEN [fs.tasks[u] EXCEPT !.cancelled = TRUE]
                       ELSE fs.tasks[u]]]

\* A variant of fetchBackupError: the first error ends the race.
fetchBackupErrorFirst(fs, t) ==
    LET errs == Append(fs.raceErr, fs.tasks[t].msg.err)
        counted == [fs EXCEPT
                       !.tasks[t] = Task("finished", NoResponse, 0, FALSE),
                       !.numErrs = @ + 1]
    IN  [counted EXCEPT !.pc = "getJson", !.r = NoResponse,
                        !.raceErr = errs, !.backupFetchErr = errs]

\* fetchBackup: case channelErr := <-errChan
fetchBackupError(fs, t) ==
    LET errs == Append(fs.raceErr, fs.tasks[t].msg.err)
        counted == [fs EXCEPT
                       !.tasks[t] = Task("finished", NoResponse, 0, FALSE),
                       !.numErrs = @ + 1]
    IN  IF counted.numErrs = NumBackups
        THEN [counted EXCEPT !.pc = "getJson", !.r = NoResponse,
                             !.raceErr = errs, !.backupFetchErr = errs]
        ELSE [counted EXCEPT !.raceErr = errs]

\* A variant of getJsonDecode: the write is dispatched whenever there is a
\* cache, whatever allow_caching says.
getJsonDecodeAlwaysWrites(fs, body) ==
    LET decoded == JsonUnmarshalResponse(body)
        made == [fs EXCEPT !.body = body,
                           !.response = decoded.response,
                           !.write = IF fs.fetchCache
                                     THEN [st |-> "running", body |-> body]
                                     ELSE @,
                           !.log = IF fs.fetchCache
                                   THEN Append(@, "cache.Write") ELSE @]
    IN  IF decoded.err # "" THEN FetchReturn(made, EmptyText, decoded.err)
        ELSE [made EXCEPT !.pc = "Parse"]

\* getJson: json.Unmarshal(body, response), the dispatch of the cache
\* write, and the return to Fetch, which returns an error of getJson as is.
getJsonDecode(fs, body) ==
    LET decoded == JsonUnmarshalResponse(body)
        caching == fs.fetchCache /\ decoded.response.AllowCaching
        made == [fs EXCEPT !.body = body,
                           !.response = decoded.response,
                           !.write = IF caching
                                     THEN [st |-> "running", body |-> body]
                                     ELSE @,
                           !.log = IF caching
                                   THEN Append(@, "cache.Write") ELSE @]
    IN  IF decoded.err # "" THEN FetchReturn(made, EmptyText, decoded.err)
        ELSE [made EXCEPT !.pc = "Parse"]

\* getJson: a response with status 404 that it does not retry.
getJsonNotFoundKeepsEntry(fs) == FetchReturn(fs, EmptyText, "ENVKEY invalid")

\* getJson: else if r != nil && r.StatusCode == 404
getJsonNotFound(fs) ==
    FetchReturn(
        IF fs.fetchCache
        THEN [fs EXCEPT !.store = CacheDelete(@),
                        !.log = Append(@, "cache.Delete")]
        ELSE fs,
        EmptyText, "ENVKEY invalid")

\* The error of an ioutil.ReadAll(r.Body) that a network failure ends.
ReadAllError == "read error"

\* What ioutil.ReadAll(r.Body) can end in, "" for a nil error: the body of
\* a response whose context fetchBackup has cancelled may be read, or not.
ReadAllErrors(fs) ==
    {"", ReadAllError}
        \cup {"context canceled" :
                 c \in {TRUE} \cap {fs.tasks[fs.winner].cancelled}}

\* getJson from the branch on the response that is used; readAllErr is the
\* error of ioutil.ReadAll on the body of a response with status 200, which
\* getJson returns when it is not nil.  An error string built from
\* fetchErr.Error() or backupFetchErr.Error() panics when that error is nil.
getJsonBranch(fs, readAllErr) ==
    LET r == fs.r
        isNil == r.status = 0
        read == CacheRead(fs.store)
        reading == [fs EXCEPT !.log = Append(@, "cache.Read")]
    IN  IF fs.backupFetchErr = <<>> /\ ~isNil /\ r.status = 200
        THEN IF readAllErr = "" THEN getJsonDecode(fs, r.body)
             ELSE FetchReturn(fs, EmptyText, readAllErr)
        ELSE IF fs.backupFetchErr # <<>> \/ (~isNil /\ r.status >= 500)
        THEN IF ~fs.fetchCache
             THEN IF fs.backupFetchErr = <<>>
                  THEN FetchReturn(fs, EmptyText,
                           "could not load from server or s3 backup.")
                  ELSE IF fs.fetchErr = "" THEN FetchPanic(fs)
                  ELSE FetchReturn(fs, EmptyText,
                           "could not load from server or s3 backup. (errors)")
             ELSE IF read.err # ""
                  THEN IF fs.fetchErr = "" \/ fs.backupFetchErr = <<>>
                       THEN FetchPanic(reading)
                       ELSE FetchReturn(reading, EmptyText,
                                "could not load from server, s3 backup, or cache.")
                  ELSE getJsonDecode(reading, read.body)
        ELSE IF ~isNil /\ r.status = 404
        THEN getJsonNotFound(fs)
        ELSE getJsonDecode(fs, NilBody)

\* The GETs of url pointers end in a transport error in the runs of Fetch.
FetchGets ==
    [env |-> GetResult(TRUE, 0, NoMessage),
     overrides |-> GetResult(TRUE, 0, NoMessage)]

\* A variant of FetchParse: a body that came from the cache is rejected.
FetchParseFreshOnly(fs) ==
    LET parsed == Parse(fs.response, splitEnvkey(fs.envkey).pw, FetchGets) IN
    IF parsed.err # "" \/ \E i \in DOMAIN fs.log : fs.log[i] = "cache.Read"
    THEN FetchReturn(
             IF fs.fetchCache
             THEN [fs EXCEPT !.store = CacheDelete(@),
                             !.log = Append(@, "cache.Delete")]
             ELSE fs,
             EmptyText, "ENVKEY invalid")
    ELSE FetchReturn(fs, parsed.out, "")

\* Fetch from response.Parse(pw) to its return.
FetchParse(fs) ==
    LET parsed == Parse(fs.response, splitEnvkey(fs.envkey).pw, FetchGets) IN
    IF parsed.err # ""
    THEN FetchReturn(
             IF fs.fetchCache
             THEN [fs EXCEPT !.store = CacheDelete(@),
                             !.log = Append(@, "cache.Delete")]
             ELSE fs,
             EmptyText, "ENVKEY invalid")
    ELSE FetchReturn(fs, parsed.out, "")

\* One Client.Do of httpExecRequest and what it does with the outcome: send
\* the response, send the error, or install the bundled roots and call
\* itself.
httpExecRequest(fs, t, outcome, certPoolOk) ==
    LET send(msg) ==
            [fs EXCEPT !.tasks[t] = Task("sending", msg, 0, @.cancelled)]
    IN  IF outcome.err = MissingRoots
        THEN IF certPoolOk
             THEN [fs EXCEPT !.bundledRoots = TRUE, !.tasks[t].tries = @ + 1]
             ELSE send(HttpError("x509: failed to load system roots; no bundled roots"))
        ELSE send(outcome)

(***************************************************************************)
(* SpecFetch: one call of Fetch for each credential, options, outcome of   *)
(* cache.NewCache and cache content below; what each request ends in is    *)
(* drawn when it ends, a status of 200 coming with the body served.        *)
(***************************************************************************)
Envkeys ==
    {<<>>,
     <<"id">>,
     <<"id", Sep>>,
     <<"id", Sep, "pw">>,
     <<"id", Sep, "pw", Sep>>,
     <<"id", Sep, "pw", Sep, "env.envkey.com">>,
     <<"id", Sep, "pw", Sep, "my", Sep, "host">>,
     <<"id", Sep, "other", Sep, "my", Sep, "host">>,
     <<"id", Sep, "pw", Sep, BadEscape>>,
     <<"id", Sep, "pw", Sep, SpacedId>>,
     <<BadEscape, Sep, "pw">>,
     <<SpacedId, Sep, "pw">>}

\* Envelopes a server or the cache may hold: two that Parse accepts and one
\* whose signed_trusted_pubkeys is not signed by the creator key.
FetchEnvelopes ==
    {[DefaultResponse EXCEPT !.AllowCaching = allow] : allow \in BOOLEAN}
        \cup {[DefaultResponse EXCEPT
                  !.SignedTrustedPubkeys = SignedDoc(2, TRUE, CreatorRoots),
                  !.AllowCaching = TRUE]}

Bodies ==
    {Body("json", envelope) : envelope \in FetchEnvelopes}
        \cup {Body("mistyped", [ZeroResponse EXCEPT !.AllowCaching = TRUE])}

Statuses == {204, 404, 500}

\* What a Client.Do of the task may end in.
Outcomes(served, task) ==
    {HttpResponse(200, served)}
        \cup {HttpResponse(status, NilBody) : status \in Statuses}
        \cup {HttpError("connection refused")}
        \cup {HttpError(MissingRoots) : tries \in {task.tries} \ {MaxTries}}
        \cup {HttpError("context canceled") : c \in {TRUE} \cap {task.cancelled}}

Stores ==
    {NoEntry}
        \cup {Entry(Body("json", [DefaultResponse EXCEPT !.AllowCaching = allow])) :
                 allow \in BOOLEAN}

\* One envelope for each layer of Parse: accepted; env empty (validation);
\* a passphrase-protected key of another pair (key extraction);
\* signed_trusted_pubkeys signed by another key (trusted-map signature); a
\* signer whose pubkey its invite key did not sign (signer trust); an env
\* message signed by another key (decryption), with and without the
\* inheritance fields.
LayerEnvelopes ==
    {[envelope EXCEPT !.AllowCaching = TRUE] : envelope \in
        {DefaultResponse,
         Blank(DefaultResponse, {"Env"}),
         [DefaultResponse EXCEPT !.PubkeyArmored = Key(2, 0)],
         [DefaultResponse EXCEPT
             !.SignedTrustedPubkeys = SignedDoc(2, TRUE, CreatorRoots)],
         [DefaultResponse EXCEPT
             !.SignedByTrustedPubkeys =
                 SignedDoc(1, TRUE, "a" :> InvitedKeyable(1, FALSE))],
         [DefaultResponse EXCEPT
             !.Env = Message(CreatorFp, 2, ObjectText(EnvObject, "compact"))],
         Blank([DefaultResponse EXCEPT
                   !.Env = Message(CreatorFp, 2,
                                   ObjectText(EnvObject, "compact"))],
               InheritanceFields)}}

\* Calls of Fetch with the default host, on a server that holds one of the
\* envelopes above.
FetchLayersInput(fs) ==
    \E pw \in {"pw", "other"}, shouldCache \in BOOLEAN,
       envelope \in LayerEnvelopes :
       fs = FetchEnter(<<"id", Sep, pw>>, FetchOptions(shouldCache, FALSE),
                       Body("json", envelope), NoEntry)

FetchInput(fs) ==
    \E envkey \in Envkeys, shouldCache \in BOOLEAN, verboseOutput \in BOOLEAN,
       served \in Bodies, store \in Stores :
       fs = FetchEnter(envkey, FetchOptions(shouldCache, verboseOutput),
                       served, store)

FetchStepTo(next) ==
    /\ fetch' = next
    /\ UNCHANGED <<trust, parse>>

FetchStart ==
    /\ fetch.pc = "Fetch"
    /\ \E newCacheOk \in BOOLEAN : FetchStepTo(FetchCall(fetch, newCacheOk))

DoRequest ==
    \E t \in TaskIds :
        /\ fetch.tasks[t].st = "running"
        /\ \E outcome \in Outcomes(fetch.served, fetch.tasks[t]),
                 certPoolOk \in BOOLEAN :
              FetchStepTo(httpExecRequest(fetch, t, outcome, certPoolOk))

ReceivePrimary ==
    /\ fetch.pc = "httpGet"
    /\ fetch.tasks[0].st = "sending"
    /\ FetchStepTo(getJsonAfterPrimary(fetch, fetch.tasks[0].msg))

ReceiveBackupResponse ==
    /\ fetch.pc = "fetchBackup"
    /\ \E t \in BackupIds :
          /\ fetch.tasks[t].st = "sending"
          /\ fetch.tasks[t].msg.err = ""
          /\ FetchStepTo(fetchBackupResponse(fetch, t))

ReceiveBackupError ==
    /\ fetch.pc = "fetchBackup"
    /\ \E t \in BackupIds :
          /\ fetch.tasks[t].st = "sending"
          /\ fetch.tasks[t].msg.err # ""
          /\ FetchStepTo(fetchBackupError(fetch, t))

BranchOnResponse ==
    /\ fetch.pc = "getJson"
    /\ \E readAllErr \in ReadAllErrors(fetch) :
          FetchStepTo(getJsonBranch(fetch, readAllErr))

ParseAndReturn ==
    /\ fetch.pc = "Parse"
    /\ FetchStepTo(FetchParse(fetch))

\* The goroutine of fetchCache.Write writes the entry.
WriteCache ==
    /\ fetch.write.st = "running"
    /\ FetchStepTo([fetch EXCEPT !.store = CacheWrite(@, fetch.write.body),
                                 !.write.st = "done"])

(***************************************************************************)
(* The specifications.                                                     *)
(***************************************************************************)
ParseIdle == [ParseEnter(ZeroResponse, <<>>) EXCEPT !.pc = "idle"]

FetchIdle ==
    [FetchEnter(<<>>, FetchOptions(FALSE, FALSE), NilBody, NoEntry)
        EXCEPT !.pc = "idle"]

TrustInit ==
    /\ TrustInput(trust)
    /\ parse = ParseIdle
    /\ fetch = FetchIdle

TrustNext == TrustLookup \/ TrustWalk \/ TrustReturn

SpecTrust == TrustInit /\ [][TrustNext]_vars

\* The walks of TrustedRoot: every subject, pool and root map of SpecTrust,
\* the pool being the signer-trusted map of a chain without overrides.
TrustWalkInit ==
    /\ TrustInput(trust)
    /\ ~trust.signer.IsInheritanceSigner
    /\ trust.chain.InheritanceOverridesSignerTrusted = NilMap
    /\ parse = ParseIdle
    /\ fetch = FetchIdle

\* The goroutine that runs VerifySignerTrusted is never suspended for ever.
SpecTrustFair == TrustWalkInit /\ [][TrustNext]_vars /\ WF_vars(TrustNext)

ParseInit ==
    /\ trust = TrustIdle
    /\ ParseInput(parse)
    /\ fetch = FetchIdle

ParseNext ==
    \/ ParseValidate
    \/ ParseParseKeys
    \/ ParseParseTrustChain
    \/ ParseVerifySigner
    \/ ParseVerifyInheritanceSigner
    \/ ParseDecryptEnv
    \/ ParseCheckEnvUrlPointer
    \/ ParseDecryptInheritanceOverrides
    \/ ParseCheckInheritanceOverridesUrlPointer
    \/ ParseUnmarshal
    \/ ParseToJson

SpecParse == ParseInit /\ [][ParseNext]_vars

FetchInit ==
    /\ trust = TrustIdle
    /\ parse = ParseIdle
    /\ FetchInput(fetch)

FetchNext ==
    \/ FetchStart
    \/ DoRequest
    \/ ReceivePrimary
    \/ ReceiveBackupResponse
    \/ ReceiveBackupError
    \/ BranchOnResponse
    \/ ParseAndReturn
    \/ WriteCache

SpecFetch == FetchInit /\ [][FetchNext]_vars

FetchLayersInit ==
    /\ trust = TrustIdle
    /\ parse = ParseIdle
    /\ FetchLayersInput(fetch)

\* Fetch on envelopes that fail in each layer of Parse.
SpecFetchLayers == FetchLayersInit /\ [][FetchNext]_vars

\* Calls of Fetch with the default host, with and without a cache, on a
\* server that holds an envelope Parse accepts.
FetchRaceInit ==
    /\ trust = TrustIdle
    /\ parse = ParseIdle
    /\ \E shouldCache \in BOOLEAN :
          fetch = FetchEnter(<<"id", Sep, "pw">>,
                             FetchOptions(shouldCache, FALSE),
                             Body("json", [DefaultResponse EXCEPT
                                              !.AllowCaching = TRUE]),
                             NoEntry)

\* The goroutines of Fetch are scheduled: the caller's goroutine takes its
\* next step (it leaves Parse, whose only step is ParseAndReturn), and so do
\* the request goroutines and the goroutine of the cache write.
SpecFetchFair ==
    /\ FetchRaceInit
    /\ [][FetchNext]_vars
    /\ WF_vars(FetchStart)
    /\ WF_vars(DoRequest)
    /\ WF_vars(ReceivePrimary)
    /\ WF_vars(ReceiveBackupResponse)
    /\ WF_vars(ReceiveBackupError)
    /\ WF_vars(BranchOnResponse)
    /\ []<>(fetch.pc # "Parse")
    /\ WF_vars(WriteCache)

(***************************************************************************)
(* C1.  VerifySignerTrusted succeeds only if (a) the creator-trusted map   *)
(* holds an entry under signer.Id whose fingerprint is the signer's, or    *)
(* (b) the signer's pool holds a fingerprint-matched entry under signer.Id *)
(* from which the invitedById edges lead to an identifier of the           *)
(* creator-trusted map, every keyable on the way passing VerifyInviter     *)
(* against its inviter (the last one against the root entry).  In every    *)
(* other case it returns an error.                                         *)
(*                                                                         *)
(* DirectlyTrusted and ChainToRoot state (a) and (b) on the maps alone,    *)
(* without the walk of the code.                                           *)
(***************************************************************************)
FingerprintMatched(map, signer) ==
    /\ MapHas(map, signer.Id)
    /\ ReadArmoredKeyOk(map.m[signer.Id].PubkeyArmored)
    /\ map.m[signer.Id].PubkeyArmored.fp = signer.Pubkey.fp

DirectlyTrusted(chain, signer) ==
    FingerprintMatched(chain.CreatorTrusted, signer)

SignaturesVerify(keyable, inviter) ==
    /\ VerifyPubkeyArmoredSignature(keyable.InvitePubkeyArmored,
                                    inviter.PubkeyArmored)
    /\ VerifyPubkeyArmoredSignature(keyable.PubkeyArmored,
                                    keyable.InvitePubkeyArmored)

\* path[1] is the signer, path[Len(path)] the root; the others are in the pool.
IsChainToRoot(pool, creator, signer, path) ==
    LET n == Len(path) IN
    /\ n >= 2
    /\ path[1] = signer.Id
    /\ FingerprintMatched(pool, signer)
    /\ \A i \in 1..(n - 1) : MapHas(pool, path[i])
    /\ MapHas(creator, path[n])
    /\ \A i \in 1..(n - 1) :
          /\ pool.m[path[i]].InvitedById = path[i + 1]
          /\ SignaturesVerify(pool.m[path[i]],
                              IF i + 1 = n THEN creator.m[path[n]]
                                           ELSE pool.m[path[i + 1]])

PathsUpTo(ids, n) == UNION {[1..k -> ids] : k \in 2..n}

ChainToRoot(chain, signer) ==
    LET pool == SignerPool(chain, signer) IN
    \E path \in PathsUpTo(CreatorIds, Cardinality(CreatorIds) + 1) :
        IsChainToRoot(pool, chain.CreatorTrusted, signer, path)

C1_TrustedOnlyIfRooted ==
    trust.pc = "done" =>
        /\ trust.result.err = VerifySignerTrusted(trust.chain, trust.signer)
        /\ (trust.result.err = "" =>
                \/ DirectlyTrusted(trust.chain, trust.signer)
                \/ ChainToRoot(trust.chain, trust.signer))

\* A signer trusted through two invitations: in the pool, not in the
\* creator-trusted map, its inviter in the pool as well.
C1_Witness ==
    /\ trust.pc = "done"
    /\ trust.result.err = ""
    /\ ~MapHas(trust.chain.CreatorTrusted, trust.signer.Id)
    /\ Len(trust.result.newlyVerified) = 2

(***************************************************************************)
(* Helpers of the claims about Parse.                                      *)
(***************************************************************************)
DecryptCalls ==
    {"DecryptAndVerify(env)", "DecryptAndVerify(inheritance_overrides)"}

TrustedMapCalls ==
    {"parseTrustedKeys(signed_trusted_pubkeys)",
     "parseTrustedKeys(signed_by_trusted_pubkeys)",
     "parseTrustedKeys(inheritance_overrides_signed_by_trusted_pubkeys)"}

VerifyTrustedCalls ==
    {"verifyTrusted(signer)", "verifyTrusted(inheritanceOverridesSigner)"}

Called(calls, names) == \E i \in DOMAIN calls : calls[i] \in names

\* Every call of `later` in calls comes after a call of `first`.
CalledBefore(calls, first, later) ==
    \A i \in DOMAIN calls :
        calls[i] \in later => \E j \in 1..(i - 1) : calls[j] = first

ParseSucceeded == parse.pc = "done" /\ parse.err = ""

ParseFailed == parse.pc = "done" /\ parse.err # "" /\ parse.out = EmptyText

(***************************************************************************)
(* C2.  Within Parse, DecryptAndVerify is not called on env or on          *)
(* inheritance_overrides, and Parse does not return an output without an   *)
(* error, unless verifyTrusted has succeeded before for the env signer     *)
(* and, when the envelope has inheritance, for the overrides signer: the   *)
(* calls of verifyTrusted precede every call of DecryptAndVerify, and both *)
(* signers are trusted by the chain that was built.                        *)
(***************************************************************************)
C2_DecryptOnlyAfterTrust ==
    (Called(parse.calls, DecryptCalls) \/ ParseSucceeded) =>
        /\ CalledBefore(parse.calls, "verifyTrusted(signer)", DecryptCalls)
        /\ Called(parse.calls, {"verifyTrusted(signer)"})
        /\ VerifySignerTrusted(parse.chain,
               Signer(parse.response.SignedById,
                      parse.response.SignedByPubkeyArmored, FALSE)) = ""
        /\ hasInheritanceOverrides(parse.response) =>
              /\ CalledBefore(parse.calls,
                              "verifyTrusted(inheritanceOverridesSigner)",
                              DecryptCalls)
              /\ Called(parse.calls, {"verifyTrusted(inheritanceOverridesSigner)"})
              /\ VerifySignerTrusted(parse.chain,
                     Signer(parse.response.InheritanceOverridesSignedById,
                            parse.response.InheritanceOverridesSignedByPubkeyArmored,
                            TRUE)) = ""

\* Parse has returned an output for an envelope with inheritance, both
\* bodies decrypted, the signers trusted through their invitations.
C2_Witness ==
    /\ ParseSucceeded
    /\ hasInheritanceOverrides(parse.response)
    /\ Called(parse.calls, {"DecryptAndVerify(env)"})
    /\ Called(parse.calls, {"DecryptAndVerify(inheritance_overrides)"})
    /\ ~MapHas(parse.chain.CreatorTrusted, parse.response.SignedById)

(***************************************************************************)
(* C3.  If the cleartext signature of one of the three trusted-pubkeys     *)
(* documents does not verify against its declared key                      *)
(* (signed_trusted_pubkeys against the creator key,                        *)
(* signed_by_trusted_pubkeys against the env-signer key, the inheritance   *)
(* document against the overrides-signer key), the corresponding trusted   *)
(* map is never built, no body is decrypted, and Parse returns an error    *)
(* and an empty output.                                                    *)
(***************************************************************************)
SignatureFails(doc, armoredKey) ==
    /\ doc.armor # ""
    /\ ~(armoredKey.fp # 0 /\ doc.by # 0 /\ doc.by = armoredKey.fp)

TamperedMaps ==
    {name \in {"creatorTrusted"} :
        SignatureFails(parse.response.SignedTrustedPubkeys,
                       parse.response.PubkeyArmored)}
    \cup {name \in {"signerTrusted"} :
        SignatureFails(parse.response.SignedByTrustedPubkeys,
                       parse.response.SignedByPubkeyArmored)}
    \cup {name \in {"inheritanceOverridesTrusted"} :
        SignatureFails(parse.response.InheritanceOverridesSignedByTrustedPubkeys,
                       parse.response.InheritanceOverridesSignedByPubkeyArmored)}

C3_TamperedMapRejected ==
    TamperedMaps # {} =>
        /\ TamperedMaps \cap parse.built = {}
        /\ ~Called(parse.calls, DecryptCalls)
        /\ parse.pc = "done" => ParseFailed

\* Parse has returned after the signature of signed_by_trusted_pubkeys
\* failed to verify, the creator-trusted map having been built.
C3_Witness ==
    /\ parse.pc = "done"
    /\ TamperedMaps = {"signerTrusted"}
    /\ parse.built = {"creatorTrusted"}
    /\ Called(parse.calls, {"parseTrustedKeys(signed_by_trusted_pubkeys)"})

(***************************************************************************)
(* C4.  If the creator pubkey does not pair with the private key decrypted *)
(* with the passphrase (VerifyPubkeyWithPrivkey fails), Parse returns an   *)
(* error before any cleartext-signature verification of a trusted map, any *)
(* signer-trust check and any call of DecryptAndVerify.                    *)
(***************************************************************************)
KeyPairMismatch ==
    /\ parse.response.EncryptedPrivkey.fp # 0
    /\ parse.response.EncryptedPrivkey.pw = parse.pw
    /\ parse.response.PubkeyArmored.fp # 0
    /\ parse.response.PubkeyArmored.fp # parse.response.EncryptedPrivkey.fp

C4_KeyPairCheckedFirst ==
    KeyPairMismatch =>
        /\ ~Called(parse.calls,
                   TrustedMapCalls \cup VerifyTrustedCalls \cup DecryptCalls)
        /\ parse.pc \in {"validate", "parseKeys", "done"}
        /\ parse.pc = "done" => ParseFailed

\* Parse has returned on the failure of VerifyPubkeyWithPrivkey.
C4_Witness ==
    /\ parse.pc = "done"
    /\ KeyPairMismatch
    /\ Len(parse.calls) > 0
    /\ parse.calls[Len(parse.calls)] = "VerifyPubkeyWithPrivkey"

(***************************************************************************)
(* C5.  Every failure of the decryption and dereference stages             *)
(* propagates: if DecryptAndVerify of env or of inheritance_overrides      *)
(* fails, or an indirect GET ends in a transport error or a status >= 400, *)
(* or the decryption after a dereference fails, Parse returns an error and *)
(* an empty output.  (parse.dropped holds the errors these calls           *)
(* returned.)                                                              *)
(***************************************************************************)
C5_DecryptFailuresPropagate ==
    (parse.pc = "done" /\ parse.dropped # <<>>) => ParseFailed

(***************************************************************************)
(* C6.  For a valid envelope with inheritance the output of Parse is a     *)
(* JSON object whose keys are those of the decrypted env object and of the *)
(* decrypted overrides object; a key of the overrides has the overrides    *)
(* value, any other key the env value.                                     *)
(***************************************************************************)
C6_OverridesMerged ==
    (ParseSucceeded /\ hasInheritanceOverrides(parse.response)) =>
        LET env == parse.dv.DecryptedEnv.m
            overrides == parse.dv.DecryptedInheritanceOverrides.m
        IN  /\ parse.out.kind = "object"
            /\ DOMAIN parse.out.obj = DOMAIN env \cup DOMAIN overrides
            /\ \A k \in DOMAIN parse.out.obj :
                  parse.out.obj[k] = IF k \in DOMAIN overrides
                                     THEN overrides[k] ELSE env[k]

(***************************************************************************)
(* C7.  For a valid envelope without inheritance fields (Parse returns no  *)
(* error and the env body decrypts and verifies with the signer keyring)   *)
(* the output of Parse is the decrypted plaintext of the env body, byte    *)
(* for byte: the same text in the same layout, not a re-serialization.     *)
(***************************************************************************)
C7_EnvVerbatim ==
    LET r == DecryptAndVerify(parse.response.Env, parse.keys.SignerKeyring)
    IN  (/\ ParseSucceeded
         /\ ~hasInheritanceOverrides(parse.response)
         /\ r.ok) =>
            parse.out = r.bytes

(***************************************************************************)
(* C8.  Parse rejects an envelope with an error, before any key parsing,   *)
(* signature verification or decryption, if and only if one of the seven   *)
(* required fields is empty or between one and three of the four           *)
(* inheritance fields are non-empty.  An action property: it holds of the  *)
(* step that validates.                                                    *)
(***************************************************************************)
IsEmptyField(response, f) ==
    IF f \in {"SignedById", "InheritanceOverridesSignedById"}
    THEN response[f] = ""
    ELSE response[f].armor = ""

Incomplete(response) ==
    LET set == {f \in InheritanceFields : ~IsEmptyField(response, f)} IN
    \/ \E f \in FieldNames \ InheritanceFields : IsEmptyField(response, f)
    \/ Cardinality(set) \in 1..3

RejectedByValidation ==
    /\ parse.pc = "done"
    /\ parse.err # ""
    /\ parse.out = EmptyText
    /\ parse.calls = <<>>
    /\ parse.built = {}

C8_ValidationExact ==
    [][parse.pc = "validate" =>
          /\ RejectedByValidation' <=> Incomplete(parse.response)
          /\ ~RejectedByValidation' => parse'.pc = "parseKeys"]_vars

\* An envelope rejected for three of its four inheritance fields.
C8_Witness ==
    /\ RejectedByValidation
    /\ \A f \in FieldNames \ InheritanceFields :
          ~IsEmptyField(parse.response, f)
    /\ Cardinality({f \in InheritanceFields :
                       ~IsEmptyField(parse.response, f)}) = 3

(***************************************************************************)
(* Helpers of the claims about Fetch.                                      *)
(***************************************************************************)
BackupRequests == {RequestName(t) : t \in BackupIds}

\* The response getJson uses has status 404.
Used404 == fetch.backupFetchErr = <<>> /\ fetch.r.status = 404

Primary404 == fetch.primary.err = "" /\ fetch.primary.status = 404

FetchFailedInvalid ==
    fetch.pc = "done" /\ fetch.err = "ENVKEY invalid" /\ fetch.res = EmptyText

(***************************************************************************)
(* C9, as stated.  When the response that is used has status 404, the      *)
(* cache holds no entry for the credential id once Fetch has returned,     *)
(* whatever the cache flag.                                                *)
(***************************************************************************)
C9_NoEntryAfter404 ==
    (fetch.pc = "done" /\ Used404) => ~fetch.store.present

(***************************************************************************)
(* C9, amended.  When the response that is used has status 404 and the     *)
(* call holds a cache handle (ShouldCache is set and cache.NewCache        *)
(* returned a cache), the cache holds no entry for the id once Fetch has   *)
(* returned, and no write of it is under way; when the call holds no cache *)
(* handle it performs no cache operation at all, so an entry stays.        *)
(***************************************************************************)
C9_NoEntryAfter404WithCache ==
    (fetch.pc = "done" /\ Used404) =>
        /\ FetchFailedInvalid
        /\ fetch.fetchCache =>
              /\ ~fetch.store.present
              /\ fetch.write.st = "none"
              /\ fetch.log[Len(fetch.log)] = "cache.Delete"
        /\ ~fetch.fetchCache =>
              ~Called(fetch.log, {"cache.Read", "cache.Delete", "cache.Write"})

\* Fetch has returned on a 404 of a backup, with a cache handle.
C9_Witness ==
    /\ fetch.pc = "done"
    /\ Used404
    /\ fetch.raced
    /\ fetch.fetchCache
    /\ ~fetch.store.present

(***************************************************************************)
(* C10.  When the primary returns 404, no backup request is issued and the *)
(* cache is not read: getJson fails with "ENVKEY invalid", which Fetch     *)
(* returns.  When a backup response with status 404 is the one the race    *)
(* returns, the cache is not read either and the error is the same.        *)
(***************************************************************************)
C10_NotFoundIsFinal ==
    /\ Primary404 =>
          /\ ~fetch.raced
          /\ ~Called(fetch.log, BackupRequests \cup {"cache.Read"})
          /\ \A t \in BackupIds : fetch.tasks[t].st = "none"
          /\ fetch.pc \in {"getJson", "done"}
          /\ fetch.pc = "done" => FetchFailedInvalid
    /\ (fetch.raced /\ Used404 /\ fetch.pc \notin {"fetchBackup", "blocked"}) =>
          /\ ~Called(fetch.log, {"cache.Read"})
          /\ fetch.pc \in {"getJson", "done"}
          /\ fetch.pc = "done" => FetchFailedInvalid

\* Fetch has returned on a 404 of the primary, holding a cache handle.
C10_Witness ==
    /\ fetch.pc = "done"
    /\ Primary404
    /\ fetch.fetchCache
    /\ fetch.log = <<RequestName(0), "cache.Delete">>

(***************************************************************************)
(* C11.  In every execution of Fetch in which the decoded envelope has     *)
(* allow_caching = false, no cache Write is dispatched, whatever the value *)
(* of ShouldCache and whichever tier (primary, backup, cache) supplied the *)
(* body.  (Before the decoding the envelope is the zero value, whose       *)
(* allow_caching is false, and no write has been dispatched.)              *)
(***************************************************************************)
Decoded == fetch.pc \in {"Parse", "done"} /\ fetch.body.kind = "json"

C11_NoWriteWithoutPermission ==
    ~fetch.response.AllowCaching =>
        /\ fetch.write.st = "none"
        /\ ~Called(fetch.log, {"cache.Write"})

\* Fetch has returned an output for an envelope with allow_caching = false
\* that it read from the cache, holding a cache handle.
C11_Witness ==
    /\ fetch.pc = "done"
    /\ fetch.err = ""
    /\ Decoded
    /\ ~fetch.response.AllowCaching
    /\ fetch.fetchCache
    /\ Called(fetch.log, {"cache.Read"})

(***************************************************************************)
(* C12.  Whenever the primary attempt ended in a network error or a status *)
(* >= 500, no backup delivered a response (all backups erred, or none was  *)
(* attempted because the host is not the default one) and a cache handle   *)
(* exists, getJson reads the cache entry for the id before it returns.     *)
(***************************************************************************)
PrimaryDone == fetch.tasks[0].st = "finished"

PrimaryFailed ==
    PrimaryDone /\ (fetch.primary.err # "" \/ fetch.primary.status >= 500)

GetJsonLeft == fetch.pc \in {"Parse", "done", "panic"} /\ PrimaryDone

C12_CacheFallback ==
    (/\ GetJsonLeft
     /\ PrimaryFailed
     /\ fetch.backupFetchErr # <<>> \/ ~fetch.raced
     /\ fetch.fetchCache) =>
        Called(fetch.log, {"cache.Read"})

(***************************************************************************)
(* C13.  When primary, backups and cache all fail (the primary ended in a  *)
(* transport error or a status >= 500; the backups all erred, or a backup  *)
(* answered with a status >= 500, or none was attempted; there is no cache *)
(* handle or the cache read failed), getJson returns an error, which Fetch *)
(* returns with an empty result: no combination ends in a crash or in a    *)
(* successful result.                                                      *)
(***************************************************************************)
BackupsFailed ==
    \/ fetch.backupFetchErr # <<>>
    \/ ~fetch.raced
    \/ fetch.raced /\ fetch.r.status >= 500

CacheFailed ==
    \/ ~fetch.fetchCache
    \/ Called(fetch.log, {"cache.Read"}) /\ fetch.body.kind = "empty"

C13_ExhaustionIsAnError ==
    (GetJsonLeft /\ PrimaryFailed /\ BackupsFailed /\ CacheFailed) =>
        /\ fetch.pc = "done"
        /\ fetch.err # ""
        /\ fetch.res = EmptyText

(***************************************************************************)
(* C14.  In the backup race the response fetchBackup returns is the first  *)
(* response with a 2xx status: a backup response with another status that  *)
(* arrives earlier does not end the race.                                  *)
(***************************************************************************)
RaceReturnedResponse ==
    /\ fetch.raced
    /\ fetch.pc \notin {"fetchBackup", "blocked"}
    /\ fetch.backupFetchErr = <<>>

C14_RaceReturns2xx ==
    RaceReturnedResponse => fetch.r.status \in 200..299

(***************************************************************************)
(* C15.  A backup request is issued if and only if the primary attempt has *)
(* completed with a transport error or a status >= 500 and the host suffix *)
(* of the credential is empty or the default host.  No backup request is   *)
(* issued before the primary attempt has completed, for a primary status   *)
(* below 500, or for a custom host; when they are issued, all backup       *)
(* requests are, after the primary one.                                    *)
(***************************************************************************)
HostIsDefault ==
    splitEnvkey(fetch.envkey).envkeyHost \in {<<>>, DefaultHost}

C15_BackupOnlyAfterPrimaryFailure ==
    /\ Called(fetch.log, BackupRequests) <=> (PrimaryFailed /\ HostIsDefault)
    /\ Called(fetch.log, BackupRequests) =>
          /\ fetch.raced
          /\ CalledBefore(fetch.log, RequestName(0), BackupRequests)
          /\ \A name \in BackupRequests : Called(fetch.log, {name})
    /\ \A t \in BackupIds :
          fetch.tasks[t].st # "none" => Called(fetch.log, {RequestName(t)})

\* The backups were requested after a primary 500, the credential naming
\* the default host.
C15_Witness ==
    /\ Called(fetch.log, BackupRequests)
    /\ fetch.primary.status = 500
    /\ splitEnvkey(fetch.envkey).envkeyHost = DefaultHost

(***************************************************************************)
(* C16.  When Parse fails on an envelope that was fetched with caching     *)
(* enabled, then once Fetch has returned and every cache operation it      *)
(* started has completed, the cache holds no entry for the id, in every    *)
(* interleaving of the Write dispatched by getJson with the Delete issued  *)
(* by Fetch.                                                               *)
(***************************************************************************)
ParseFailedInFetch ==
    /\ fetch.pc = "done"
    /\ fetch.err = "ENVKEY invalid"
    /\ fetch.body.kind = "json"

C16_NoEntryAfterParseFailure ==
    (ParseFailedInFetch /\ fetch.fetchCache /\ fetch.write.st # "running") =>
        ~fetch.store.present

(***************************************************************************)
(* C17.  For any envelope bytes B, the result of Fetch when B is read from *)
(* the cache after primary and backup failure equals the result of Fetch   *)
(* when B is the body of a primary 200 response.  It is shown as: whenever *)
(* Fetch returns after getJson has taken a body B from any tier, the       *)
(* result is one function of B and the passphrase, ResultOfBody, in which  *)
(* the tier does not occur.                                                *)
(***************************************************************************)
ResultOfBody(body, pw) ==
    LET decoded == JsonUnmarshalResponse(body)
        parsed == Parse(decoded.response, pw, FetchGets)
    IN  IF decoded.err # "" THEN <<EmptyText, decoded.err>>
        ELSE IF parsed.err # "" THEN <<EmptyText, "ENVKEY invalid">>
        ELSE <<parsed.out, "">>

C17_TierIndependent ==
    (fetch.pc = "done" /\ fetch.body.kind # "empty") =>
        <<fetch.res, fetch.err>> =
            ResultOfBody(fetch.body, splitEnvkey(fetch.envkey).pw)

\* Fetch has returned an output for a body it read from the cache after the
\* primary and the backups failed, a body the servers hand out as well.
C17_Witness ==
    /\ fetch.pc = "done"
    /\ fetch.err = ""
    /\ fetch.res # EmptyText
    /\ Called(fetch.log, {"cache.Read"})
    /\ fetch.backupFetchErr # <<>>
    /\ fetch.body \in Bodies


\* The ids of a map; none for a nil map.
MapIds(trustedKeyables) ==
    IF trustedKeyables.nil THEN {} ELSE DOMAIN trustedKeyables.m

\* The distinct ids of the pool TrustedRoot walks and of the root map.
WalkIds ==
    MapIds(SignerPool(trust.chain, trust.signer))
        \cup MapIds(trust.chain.CreatorTrusted)

\* The loop iterations TrustedRoot has completed: each appends one keyable.
CompletedIterations == Len(trust.st.newlyVerified)

\* The checked ids count the completed iterations and are ids of the pool or
\* of the root map; at most one more pass of the loop, the returning one,
\* was entered.
WalkBounded ==
    /\ trust.st.checked \subseteq WalkIds
    /\ Cardinality(trust.st.checked) = CompletedIterations
    /\ CompletedIterations <= Cardinality(WalkIds)
    /\ trust.st.iterations <= CompletedIterations + 1

\* A pass of the loop that completes adds one id that was not checked; a
\* pass that returns an error adds none.
WalkStep ==
    (trust.pc = "walk" /\ trust'.pc = "walk" /\ trust'.st # trust.st) =>
        IF trust'.st.err = ""
        THEN /\ trust.st.currentKeyable.InvitedById \notin trust.st.checked
             /\ trust'.st.checked =
                    trust.st.checked \cup {trust.st.currentKeyable.InvitedById}
        ELSE trust'.st.checked = trust.st.checked

\* C18: TrustedRoot terminates for every subject, pool and root map, cycles
\* and self-loops of invitedById included: every completed iteration adds
\* one new id to the checked set, the completed iterations never exceed the
\* distinct ids of the pool and the root map, and every call returns.
C18_TrustedRootTerminates ==
    /\ []WalkBounded
    /\ [][WalkStep]_vars
    /\ (trust.pc = "start" ~> trust.pc = "done")

\* A self-loop or a two-cycle of the pool was walked until the checked map
\* stopped it.
C18_Witness ==
    /\ trust.pc = "done"
    /\ trust.st.err = "Already checked signing id"
    /\ CompletedIterations = 2
    /\ trust.st.iterations = 3


\* The invitedById edges from `keyable` stay inside the pool, on ids that
\* the creator-trusted map does not hold, for n edges.
RECURSIVE StaysInPool(_, _, _, _)
StaysInPool(trustedKeyables, creatorTrusted, keyable, n) ==
    \/ n = 0
    \/ /\ keyable.InvitedById # ""
       /\ MapHas(trustedKeyables, keyable.InvitedById)
       /\ ~MapHas(creatorTrusted, keyable.InvitedById)
       /\ StaysInPool(trustedKeyables, creatorTrusted,
                      trustedKeyables.m[keyable.InvitedById], n - 1)

\* Every invitation on the first n edges from `keyable` verifies.
RECURSIVE EdgesVerify(_, _, _)
EdgesVerify(trustedKeyables, keyable, n) ==
    \/ n = 0
    \/ /\ MapHas(trustedKeyables, keyable.InvitedById)
       /\ VerifyInviter(keyable, trustedKeyables.m[keyable.InvitedById]) = ""
       /\ EdgesVerify(trustedKeyables,
                      trustedKeyables.m[keyable.InvitedById], n - 1)

\* More edges than the pool has ids: an id is met twice.
CycleLength == Cardinality(MapIds(SignerPool(trust.chain, trust.signer))) + 1

\* TrustedRoot was called for the signer, and the edges from the subject
\* form a cycle inside the pool that never reaches a creator-trusted id.
WalkInCycle ==
    /\ ~ChainLookup(trust.chain, trust.signer).returned
    /\ StaysInPool(SignerPool(trust.chain, trust.signer),
                   trust.chain.CreatorTrusted, trust.trusted, CycleLength)

CycleVerifies ==
    EdgesVerify(SignerPool(trust.chain, trust.signer), trust.trusted,
                CycleLength)

\* C19: when the invitedById edges from the subject form a cycle inside the
\* pool that never reaches an id of the creator-trusted map, TrustedRoot
\* returns an error and the signer is not trusted, also when every signature
\* on the cycle verifies (the error is then that of the checked map).
C19_CycleIsAnError ==
    (trust.pc = "done" /\ WalkInCycle) =>
        /\ trust.st.err # ""
        /\ trust.result.err # ""
        /\ ~trust.result.has
        /\ VerifySignerTrusted(trust.chain, trust.signer) # ""
        /\ CycleVerifies => trust.st.err = "Already checked signing id"

\* A cycle of two ids whose signatures all verify was walked and refused.
C19_Witness ==
    /\ trust.pc = "done"
    /\ WalkInCycle
    /\ CycleVerifies
    /\ Cardinality(trust.st.checked) = 2
    /\ trust.result.err = "Already checked signing id"


\* No request was started or sent and the cache was not touched.
NothingAccessed ==
    /\ fetch.log = <<>>
    /\ \A t \in TaskIds : fetch.tasks[t] = NoTask
    /\ fetch.write = NoWrite
    /\ ~fetch.fetchCache

RejectedAtEntry ==
    /\ fetch.pc = "done"
    /\ fetch.err = "ENVKEY invalid"
    /\ fetch.res = EmptyText
    /\ NothingAccessed

\* C20: Fetch fails with "ENVKEY invalid" without any network request or
\* cache access exactly when splitting the credential on "-" yields fewer
\* than two pieces; otherwise the id is the first piece, the passphrase the
\* second, the host the remaining pieces rejoined with "-" (empty when there
\* are exactly two), and id, passphrase and a non-empty host joined with "-"
\* are the credential again.
C20_SplitCredential ==
    LET pieces == Split(fetch.envkey)
        split == splitEnvkey(fetch.envkey)
    IN  /\ (fetch.pc # "Fetch" /\ Len(pieces) < 2) => RejectedAtEntry
        /\ RejectedAtEntry => Len(pieces) < 2
        /\ Len(pieces) >= 2 =>
              /\ split.envkeyParam = pieces[1]
              /\ split.pw = pieces[2]
              /\ split.envkeyHost = Join(SubSeq(pieces, 3, Len(pieces)))
              /\ Len(pieces) = 2 => split.envkeyHost = <<>>
              /\ split.envkeyHost # <<>> =>
                    Join(<<split.envkeyParam, split.pw, split.envkeyHost>>)
                        = fetch.envkey
              /\ fetch.pc \in {"httpGet", "fetchBackup"} =>
                    fetch.tasks[0] # NoTask

\* A credential of one piece was refused before anything was accessed.
C20_Witness ==
    /\ RejectedAtEntry
    /\ fetch.envkey = <<"id">>


\* What Parse does with the envelope Fetch decoded.
ParseOfResponse ==
    Parse(fetch.response, splitEnvkey(fetch.envkey).pw, FetchGets)

\* A layer of Parse failed: a stage returned an error, or a decryption
\* failed (its error is in `dropped`).
LayerFailed == ParseOfResponse.err # "" \/ ParseOfResponse.dropped # <<>>

\* C21: the error Fetch returns is the string "ENVKEY invalid" for a 404
\* response and for every failure of Parse, in validation, key extraction,
\* the signature of a trusted map, signer trust or decryption, so that the
\* layer that failed cannot be told from what Fetch returns.
C21_FailuresIndistinguishable ==
    /\ (fetch.pc = "done" /\ GetJsonLeft /\ Used404) => FetchFailedInvalid
    /\ (fetch.pc = "done" /\ Decoded /\ LayerFailed) => FetchFailedInvalid


\* The inviter TrustedRoot looks up for `keyable`: the entry of the
\* creator-trusted map under its invitedById, else that of the pool.
WalkInviter(keyable) ==
    IF MapHas(trust.chain.CreatorTrusted, keyable.InvitedById)
    THEN trust.chain.CreatorTrusted.m[keyable.InvitedById]
    ELSE MapGet(SignerPool(trust.chain, trust.signer), keyable.InvitedById)

\* The two checks of a step, on the keys alone.
InviteKeySignedByInviter(keyable) ==
    /\ keyable.InvitePubkeyArmored.fp # 0
    /\ WalkInviter(keyable).PubkeyArmored.fp # 0
    /\ keyable.InvitePubkeyArmored.by = WalkInviter(keyable).PubkeyArmored.fp

PubkeySignedByInviteKey(keyable) ==
    /\ keyable.PubkeyArmored.fp # 0
    /\ keyable.InvitePubkeyArmored.fp # 0
    /\ keyable.PubkeyArmored.by = keyable.InvitePubkeyArmored.fp

\* The walk is at a step whose inviter it finds, and one of the two checks
\* of that step fails.
StepCheckFails ==
    /\ trust.pc = "walk"
    /\ TrustedRootRunning(trust.st)
    /\ trust.st.currentKeyable.InvitedById # ""
    /\ trust.st.currentKeyable.InvitedById \notin trust.st.checked
    /\ \/ MapHas(trust.chain.CreatorTrusted,
                 trust.st.currentKeyable.InvitedById)
       \/ MapHas(SignerPool(trust.chain, trust.signer),
                 trust.st.currentKeyable.InvitedById)
    /\ \/ ~InviteKeySignedByInviter(trust.st.currentKeyable)
       \/ ~PubkeySignedByInviteKey(trust.st.currentKeyable)

\* Every step the walk has completed passed both checks, and a walk that
\* ended in an error yields no trusted keyable.
StepsVerified ==
    /\ \A i \in DOMAIN trust.st.newlyVerified :
          /\ InviteKeySignedByInviter(trust.st.newlyVerified[i])
          /\ PubkeySignedByInviteKey(trust.st.newlyVerified[i])
    /\ (trust.pc = "done" /\ trust.st.err # "") =>
          (trust.result.err # "" /\ ~trust.result.has)

\* A step with a failing check ends the walk in an error: the step is not
\* completed and the loop is left.
FailingStepEndsWalk ==
    StepCheckFails =>
        /\ trust'.st.err # ""
        /\ trust'.st.newlyVerified = trust.st.newlyVerified
        /\ trust'.st.iterations = trust.st.iterations + 1
        /\ ~TrustedRootRunning(trust'.st)

\* C22: at every step of the trust walk both checks are required, the
\* invite key signed by the inviter's pubkey and the pubkey signed by the
\* subject's own invite key; when either fails at any step, the step against
\* the creator-trusted root included, TrustedRoot returns an error and runs
\* no later step.
C22_BothChecksAtEveryStep ==
    /\ []StepsVerified
    /\ [][FailingStepEndsWalk]_vars

\* The walk completed one step and failed the second check of its last
\* step, the one against a root of the creator-trusted map.
C22_Witness ==
    /\ trust.pc = "done"
    /\ Len(trust.st.newlyVerified) = 1
    /\ trust.st.iterations = 2
    /\ MapHas(trust.chain.CreatorTrusted, trust.st.currentKeyable.InvitedById)
    /\ InviteKeySignedByInviter(trust.st.currentKeyable)
    /\ ~PubkeySignedByInviteKey(trust.st.currentKeyable)
    /\ trust.result.err = "pubkey not signed by invite pubkey"


\* The map holds an entry under signer.Id with another fingerprint.
FingerprintDiffers(map, signer) ==
    /\ MapHas(map, signer.Id)
    /\ map.m[signer.Id].PubkeyArmored.fp # signer.Pubkey.fp

CreatorMismatch == FingerprintDiffers(trust.chain.CreatorTrusted, trust.signer)

\* The pool is consulted (the creator-trusted map has no entry for the
\* signer) and holds an entry of another fingerprint.
PoolMismatch ==
    /\ ~MapHas(trust.chain.CreatorTrusted, trust.signer.Id)
    /\ FingerprintDiffers(SignerPool(trust.chain, trust.signer), trust.signer)

FingerprintError ==
    "Signer pubkey fingerprint does not match trusted pubkey fingerprint."

\* C23: when a trusted map consulted for a signer holds an entry under
\* signer.Id of another fingerprint, the lookup returns an error and
\* VerifySignerTrusted fails; a mismatch in the creator-trusted map is final,
\* the pool is not consulted and no walk is started, whatever chain the pool
\* holds.
C23_FingerprintMismatchFails ==
    (CreatorMismatch \/ PoolMismatch) =>
        /\ VerifySignerTrusted(trust.chain, trust.signer) = FingerprintError
        /\ trust.pc \in {"start", "done"}
        /\ trust.st = TrustedRootEnter(NoKeyable)
        /\ trust.pc = "done" =>
              /\ trust.result.err = FingerprintError
              /\ ~trust.result.has
              /\ trust.result.newlyVerified = <<>>

\* The signer was refused on the creator-trusted entry of another
\* fingerprint although its pool holds a chain to a root that verifies.
C23_Witness ==
    /\ trust.pc = "done"
    /\ CreatorMismatch
    /\ ChainToRoot(trust.chain, trust.signer)
    /\ trust.result.err = FingerprintError


\* The pool of the signer's tag and the pool of the other tag, read off the
\* chain.
OwnPool ==
    IF trust.signer.IsInheritanceSigner
    THEN trust.chain.InheritanceOverridesSignerTrusted
    ELSE trust.chain.SignerTrusted

OtherPool ==
    IF trust.signer.IsInheritanceSigner
    THEN trust.chain.SignerTrusted
    ELSE trust.chain.InheritanceOverridesSignerTrusted

\* The chain with the pool of the other tag taken away.
ChainWithoutOtherPool ==
    IF trust.signer.IsInheritanceSigner
    THEN [trust.chain EXCEPT !.SignerTrusted = NilMap]
    ELSE [trust.chain EXCEPT !.InheritanceOverridesSignerTrusted = NilMap]

NotTrustedError ==
    IF trust.signer.IsInheritanceSigner
    THEN "Inheritance overrides signer not trusted."
    ELSE "Signer not trusted."

MapEntries(trustedKeyables) ==
    IF trustedKeyables.nil THEN {}
    ELSE {trustedKeyables.m[id] : id \in DOMAIN trustedKeyables.m}

\* C24: a signer that the creator-trusted map does not hold is validated
\* against the pool of its own tag only: when that pool is absent or does
\* not hold the signer, the signer is rejected as not trusted whatever the
\* other pool holds; the subject and every keyable of the walk are entries
\* of the own pool, and the outcome is the one without the other pool.
C24_OwnPoolOnly ==
    ~MapHas(trust.chain.CreatorTrusted, trust.signer.Id) =>
        /\ VerifySignerTrusted(trust.chain, trust.signer) =
              VerifySignerTrusted(ChainWithoutOtherPool, trust.signer)
        /\ ~MapHas(OwnPool, trust.signer.Id) =>
              /\ VerifySignerTrusted(trust.chain, trust.signer)
                    = NotTrustedError
              /\ trust.pc \in {"start", "done"}
              /\ trust.pc = "done" =>
                    (trust.result.err = NotTrustedError /\ ~trust.result.has)
        /\ trust.pc = "walk" =>
              /\ trust.trusted = OwnPool.m[trust.signer.Id]
              /\ trust.st.currentKeyable \in MapEntries(OwnPool)
              /\ \A i \in DOMAIN trust.st.newlyVerified :
                    trust.st.newlyVerified[i] \in MapEntries(OwnPool)
        /\ (trust.pc = "done" /\ trust.result.has) =>
              trust.result.keyable = OwnPool.m[trust.signer.Id]

\* The signer is held, with a chain that verifies, by the pool of the other
\* tag only, and was rejected as not trusted.
C24_Witness ==
    /\ trust.pc = "done"
    /\ ~MapHas(trust.chain.CreatorTrusted, trust.signer.Id)
    /\ ~MapHas(OwnPool, trust.signer.Id)
    /\ ~OwnPool.nil
    /\ OtherPool = DecoyPool
    /\ MapHas(trust.chain.CreatorTrusted, "c")
    /\ trust.chain.CreatorTrusted.m["c"].PubkeyArmored.fp = 1
    /\ trust.signer.Pubkey.fp = 1
    /\ trust.result.err = NotTrustedError


\* json.Unmarshal of a text whose first byte is a double quote: the string
\* it holds.
JsonDecodedUrl(text) == BareUrl(text.url)

FirstByteIsQuote(text) == text.kind = "string"

\* The step of Parse at `stage` issues a GET exactly when `body`, the text
\* decrypted for the field, starts with a double quote, and requests the
\* decoded string.
GetIffQuoted(stage, body) ==
    parse.pc = stage =>
        /\ Len(parse'.urls) > Len(parse.urls) <=> FirstByteIsQuote(body)
        /\ Len(parse'.urls) > Len(parse.urls) =>
              /\ Len(parse'.urls) = Len(parse.urls) + 1
              /\ parse'.urls[Len(parse'.urls)].url = JsonDecodedUrl(body)

\* C25: a decrypted body is treated as an indirect pointer, and a GET is
\* issued for it, if and only if its first byte is a double quote, the URL
\* requested being the JSON-decoded string; a body that starts with anything
\* else is used as is and triggers no GET.
C25_PointerIffQuoted ==
    [][/\ GetIffQuoted("checkEnvUrlPointer", parse.dv.DecryptedEnvString)
       /\ GetIffQuoted("checkInheritanceOverridesUrlPointer",
                       parse.dv.DecryptedInheritanceOverridesString)]_vars


\* The GETs Parse has issued for the pointer of a field.
GetsFor(field) == {i \in DOMAIN parse.urls : parse.urls[i].field = field}

\* C26: during one Parse at most one indirect GET is issued for the env
\* field and at most one for the inheritance_overrides field; a body
\* decrypted after a dereference that is a pointer again is not followed.
C26_AtMostOneGetPerField ==
    /\ Cardinality(GetsFor("env")) <= 1
    /\ Cardinality(GetsFor("inheritance_overrides")) <= 1
    /\ Len(parse.urls) <= 2

\* Parse has returned after one GET for env whose body decrypted to a
\* pointer again, which it did not request.
C26_Witness ==
    /\ parse.pc = "done"
    /\ parse.urls = <<[field |-> "env", url |-> BareUrl("https://u1")]>>
    /\ parse.dv.DecryptedEnvString = BareUrl("https://u3")


\* A step of Parse at `stage` requested a pointer.
Dereferenced(stage) ==
    parse.pc = stage /\ Len(parse'.urls) > Len(parse.urls)

EnvUnchanged ==
    /\ parse'.response.Env = parse.response.Env
    /\ parse'.dv.DecryptedEnvBytes = parse.dv.DecryptedEnvBytes
    /\ parse'.dv.DecryptedEnvString = parse.dv.DecryptedEnvString

InheritanceOverridesUnchanged ==
    /\ parse'.response.InheritanceOverrides = parse.response.InheritanceOverrides
    /\ parse'.dv.DecryptedInheritanceOverridesBytes =
          parse.dv.DecryptedInheritanceOverridesBytes
    /\ parse'.dv.DecryptedInheritanceOverridesString =
          parse.dv.DecryptedInheritanceOverridesString

\* C27: dereferencing an inheritance_overrides pointer replaces only the
\* inheritance_overrides field of the envelope and decrypts that field again
\* with the overrides keyring, the env field and the decrypted env being
\* left unchanged; dereferencing an env pointer leaves inheritance_overrides
\* unchanged.
C27_DereferenceFrame ==
    [][/\ Dereferenced("checkInheritanceOverridesUrlPointer") =>
             /\ EnvUnchanged
             /\ parse'.dv.DecryptedInheritanceOverridesBytes =
                   DecryptAndVerify(parse'.response.InheritanceOverrides,
                                    parse.keys.InheritanceSignerKeyring).bytes
       /\ Dereferenced("checkEnvUrlPointer") =>
             InheritanceOverridesUnchanged]_vars


\* A cache Write was dispatched (go fetchCache.Write).
WriteDispatched == fetch.write.st # "none"

\* C28: a cache Write is dispatched only when the body came from a network
\* response of status 200, not from the cache, it decoded into an envelope
\* without error, allow_caching is true and a cache handle exists; the bytes
\* written are the body as received.
C28_WriteOnlyFreshDecoded ==
    WriteDispatched =>
        /\ ~Called(fetch.log, {"cache.Read"})
        /\ fetch.backupFetchErr = <<>>
        /\ fetch.r.err = ""
        /\ fetch.r.status = 200
        /\ JsonUnmarshalResponse(fetch.body).err = ""
        /\ fetch.response.AllowCaching
        /\ fetch.fetchCache
        /\ fetch.write.body = fetch.r.body


\* A backup response has won the race of fetchBackup.
RaceWon == fetch.winner \in BackupIds

\* C29: when a backup response wins the race, fetchBackup calls the cancel
\* function of every other backup request before it returns, and not that of
\* the winner's own request.
C29_LosersCancelledNotWinner ==
    RaceWon =>
        /\ \A u \in BackupIds \ {fetch.winner} : fetch.tasks[u].cancelled
        /\ ~fetch.tasks[fetch.winner].cancelled


\* fetchBackup was called and has returned.
RaceReturned ==
    fetch.raced /\ fetch.pc \in {"getJson", "Parse", "done", "panic"}

\* Every request task started for the race has finished: it delivered its
\* response or error and returned.
RaceTasksFinished == \A t \in BackupIds : fetch.tasks[t].st = "finished"

\* C30: after fetchBackup has returned, every request task started for the
\* race eventually finishes; no loser stays blocked for ever on the send of
\* its response or error to the channels of the race.
C30_LosersFinish == RaceReturned ~> RaceTasksFinished


\* fetchBackup has returned an error exactly when every backup request has
\* reported an error, and then all of them have reported; while the race is
\* on, fewer errors than requests were received.
RaceErrorIffAllFailed ==
    /\ RaceReturned =>
          /\ fetch.backupFetchErr # <<>> <=> fetch.numErrs = NumBackups
          /\ fetch.backupFetchErr # <<>> =>
                /\ Len(fetch.backupFetchErr) = NumBackups
                /\ fetch.backupFetchErr = fetch.raceErr
                /\ RaceTasksFinished
                /\ fetch.r = NoResponse
                /\ ~RaceWon
          /\ fetch.backupFetchErr = <<>> => (RaceWon /\ fetch.r.err = "")
    /\ fetch.pc = "fetchBackup" =>
          (fetch.numErrs < NumBackups /\ fetch.backupFetchErr = <<>>)

\* The step that receives a backup's error adds that error to the
\* aggregate, and ends the race only when it is the last one.
RaceErrorStep ==
    (fetch.pc = "fetchBackup" /\ fetch'.numErrs # fetch.numErrs) =>
        /\ fetch'.numErrs = fetch.numErrs + 1
        /\ \E t \in BackupIds :
              /\ fetch.tasks[t].st = "sending"
              /\ fetch.tasks[t].msg.err # ""
              /\ fetch'.tasks[t].st = "finished"
              /\ fetch'.raceErr = Append(fetch.raceErr, fetch.tasks[t].msg.err)
        /\ fetch'.pc = "getJson" <=> fetch'.numErrs = NumBackups
        /\ fetch'.pc # "getJson" =>
              (fetch'.pc = "fetchBackup" /\ fetch'.backupFetchErr = <<>>)

\* C31: fetchBackup returns an error if and only if every backup request
\* ended in an error, only after all of them have reported, the error
\* aggregating the error of each; one backup error while another request is
\* outstanding does not end the race.
C31_ErrorOnlyWhenAllFailed ==
    /\ []RaceErrorIffAllFailed
    /\ [][RaceErrorStep]_vars

\* Both backups failed, with different errors, and fetchBackup returned the
\* two errors.
C31_Witness ==
    /\ fetch.pc = "getJson"
    /\ fetch.raced
    /\ Len(fetch.backupFetchErr) = NumBackups
    /\ fetch.backupFetchErr[1] # fetch.backupFetchErr[2]


\* C32: for one request a transport error reporting missing system roots
\* causes exactly one retry with the bundled pool installed; when the retry
\* fails, with that error or another, the error is reported and the request
\* is not retried again.  (tries counts the retries of the request.)
C32_RetryOnce ==
    \A t \in TaskIds :
        /\ fetch.tasks[t].tries <= 1
        /\ fetch.tasks[t].tries = 1 => fetch.bundledRoots


\* C33: httpGet and fetchBackup terminate for every outcome of their
\* requests, a request that cannot be built included: the error that
\* httpGetAsync sends on the error channel is received, and the caller is
\* never left blocked before its select.
C33_CallerReachesSelect == fetch.pc # "blocked"


\* C34: the result of Fetch does not depend on VerboseOutput, the case of
\* ShouldCache with a cache that initializes without error included: the
\* step of Fetch from its call to the select of httpGet takes a run to the
\* state the run without VerboseOutput reaches from the same credential,
\* other options, served body, cache state and outcome of cache.NewCache.
WithoutVerbose(fs) == [fs EXCEPT !.options.VerboseOutput = FALSE]

SameButVerbose(a, b) == WithoutVerbose(a) = WithoutVerbose(b)

VerboseIndependentStep ==
    fetch.pc = "Fetch" =>
        \E newCacheOk \in BOOLEAN :
            /\ fetch.options.ShouldCache => fetch'.newCacheOk = newCacheOk
            /\ SameButVerbose(fetch',
                              FetchCall(WithoutVerbose(fetch), newCacheOk))

C34_VerboseIndependent == [][VerboseIndependentStep]_vars

=============================================================================
